---- MODULE Spec2Model ----
(***************************************************************************)
(* Model of the DocuQuery backend: the persisted task store, the upload    *)
(* handler with its background indexing job, and the conversation memory   *)
(* used by the query handler, the hybrid retriever with its lexical index,  *)
(* the reranker, the citation excerpts and the chunker, and the threads    *)
(* and requests that use the lexical index, the retriever singleton and    *)
(* the daily upload limit side by side.                                    *)
(***************************************************************************)
EXTENDS Integers, Sequences, FiniteSets, TLC

(* ------------------------------ bounds --------------------------------- *)
MaxTasks == 2
MaxFiles == 2
MaxClock == 5
MaxChunks == 1
MaxPages == 1
MaxSessions == 2
MaxBound == 2
MaxMsgs == 4
MaxN == 1
MaxQueries == 2
MaxNodes == 3
MaxSentences == 3
MaxDocuments == 3
MaxSpans == 2
MaxBatch == 2
MaxThreads == 2

(* ------------------------- program constants --------------------------- *)
DAILY_UPLOAD_LIMIT == 3
\* the relevance cutoff 0.05 of the query handler, in hundredths
RELEVANCE_THRESHOLD == 5
\* settings.hybrid_search_weight 0.5, in hundredths
hybrid_search_weight == 50
\* settings.top_k, and settings.rerank_top_k when the environment does not set it
top_k == 20
RERANK_TOP_K == 5
\* the default of max_length in _extract_key_sentences
max_length == 200
\* scores are whole numbers up to 2; a normalised score is kept in units of
\* 1/NormScale and a fused score in units of 1/(100 * NormScale)
NormScale == 2

PROCESSING == "processing"
COMPLETED == "completed"
FAILED == "failed"

\* positional arguments passed at the call in the background job, and the
\* parameters the called function declares
CallArgs == <<"file_path", "task_id", "folder_id", "document_id", "original_filename">>
ProcParams == <<"file_path", "task_id">>

(* ------------------------------ values --------------------------------- *)
NULL == -1
NULL_TEXT == "NULL"
None == [none |-> TRUE]

Min(a, b) == IF a < b THEN a ELSE b
Max(a, b) == IF a > b THEN a ELSE b

TaskIds == 1..MaxTasks
FileNames == {"a.pdf", "b.exe"}
SupportedFiles == {"a.pdf"}
Errors == {"boom"}

VARIABLES
    store,          \* the tasks table of task_store.db: task_id -> row
    task_statuses,  \* the in-process dict schemas.task_statuses
    documents,      \* Document rows of the relational database, keyed by task id
    folders_today,  \* Folder rows the user created today
    clock,          \* datetime.now()
    next_uuid,      \* task ids handed out so far (uuid4 is fresh)
    upPc, upFiles, upDocs, upTask, upRemaining,  \* the upload handler's position and locals
    published,      \* task ids that left the handler that made them
    created,        \* task ids for which create_task has returned
    jobPc,          \* position of each background job
    procPc, procLocals, \* position and locals of each process_and_index_document call
    vector_index,   \* chunks inserted into the vector index
    all_nodes,      \* HybridRetriever.all_nodes
    taskResp,       \* last response of GET /tasks/{task_id}
    upResp,         \* last response of POST /upload
    max_conversation_history, \* settings.max_conversation_history
    sessions,       \* ConversationMemory.sessions: session id -> list of messages
    log,            \* per session, the messages add_message was called with since the session was made
    recentResp,     \* last call of get_recent_history and its result
    issued,         \* per session, the queries issued with its id
    answered,       \* per session, the queries that returned a generated answer
    queryResp,      \* last response of POST /query
    rerank_top_k,   \* settings.rerank_top_k
    bm25_retriever, \* HybridRetriever.bm25_retriever: None or the BM25Retriever's fields
    added,          \* the nodes add_nodes was called with, in the order of the calls
    retrieved,      \* last call of HybridRetriever.retrieve and its result
    reranked,       \* last call of CohereReranker.rerank and its result
    excerpt,        \* last call of _extract_key_sentences and its result
    chunked,        \* last call of chunk_documents and its result
    histResp,       \* last response of GET /sessions/{session_id}
    thrPc,          \* position of each concurrent thread or request
    thrLocals,      \* locals of each concurrent thread or request
    hybrid_retriever, \* the global tasks._hybrid_retriever: 0 for None, or an instance
    instances,      \* per HybridRetriever instance, the nodes added through it
    searched,       \* last returned search of the lexical index and its result
    overlapped      \* whether two add_nodes calls have run side by side

taskSansClock == <<store, task_statuses, documents, folders_today, next_uuid,
              upPc, upFiles, upDocs, upTask, upRemaining, published, created, jobPc,
              procPc, procLocals, vector_index, all_nodes, taskResp, upResp>>

taskVars == <<store, task_statuses, documents, folders_today, clock, next_uuid,
              upPc, upFiles, upDocs, upTask, upRemaining, published, created, jobPc,
              procPc, procLocals, vector_index, all_nodes, taskResp, upResp>>

\* the lexical index of the retriever, and the results of calls
lexVars == <<bm25_retriever, added>>
callVars == <<retrieved, reranked, excerpt, chunked, histResp>>
\* threads and requests that run side by side, and the retriever singleton
threadVars == <<thrPc, thrLocals, hybrid_retriever, instances, searched, overlapped>>

memVars == <<max_conversation_history, sessions, log, recentResp, issued, answered, queryResp,
             rerank_top_k, lexVars, callVars, threadVars>>

vars == <<taskVars, memVars>>

(* ----------------------------- task store ------------------------------ *)
Put(f, k, v) == [x \in DOMAIN f \cup {k} |-> IF x = k THEN v ELSE f[x]]

NewRow(filename, created_at) ==
    [status |-> PROCESSING, filename |-> filename, created_at |-> created_at,
     completed_at |-> NULL, failed_at |-> NULL, chunks |-> NULL, pages |-> NULL,
     error |-> NULL_TEXT, ok |-> 1]

\* create_task whose INSERT is never committed
create_task_uncommitted(st, task_id, filename, now) == st

\* INSERT INTO tasks: the primary key rejects an id that already has a row
create_task(st, task_id, filename, now) ==
    IF task_id \in DOMAIN st THEN st ELSE Put(st, task_id, NewRow(filename, now))

\* UPDATE tasks SET ... WHERE task_id = ?
complete_task(st, task_id, chunks, pages, now) ==
    [x \in DOMAIN st |->
        IF x = task_id
        THEN [st[x] EXCEPT !.status = COMPLETED, !.completed_at = now,
                           !.chunks = chunks, !.pages = pages, !.ok = 1]
        ELSE st[x]]

fail_task(st, task_id, error, now) ==
    [x \in DOMAIN st |->
        IF x = task_id
        THEN [st[x] EXCEPT !.status = FAILED, !.failed_at = now,
                           !.error = error, !.ok = 0]
        ELSE st[x]]

\* get_task that answers a default record for an id without a row
get_task_default(st, task_id) ==
    IF task_id \notin DOMAIN st
    THEN [status |-> PROCESSING, filename |-> NULL_TEXT, created_at |-> NULL,
          ok |-> TRUE, completed_at |-> NULL, failed_at |-> NULL,
          chunks |-> NULL, pages |-> NULL, error |-> NULL_TEXT]
    ELSE LET row == st[task_id] IN
         [status |-> row.status, filename |-> row.filename,
          created_at |-> row.created_at,
          ok |-> IF row.ok # NULL THEN row.ok # 0 ELSE FALSE,
          completed_at |-> row.completed_at,
          failed_at |-> row.failed_at,
          chunks |-> row.chunks,
          pages |-> row.pages,
          error |-> IF row.error \notin {NULL_TEXT, ""} THEN row.error ELSE NULL_TEXT]

\* the dict get_task builds from the row; a key it leaves out is NULL here
get_task(st, task_id) ==
    IF task_id \notin DOMAIN st THEN None
    ELSE LET row == st[task_id] IN
         [status |-> row.status, filename |-> row.filename,
          created_at |-> row.created_at,
          ok |-> IF row.ok # NULL THEN row.ok # 0 ELSE FALSE,
          completed_at |-> row.completed_at,
          failed_at |-> row.failed_at,
          chunks |-> row.chunks,
          pages |-> row.pages,
          error |-> IF row.error \notin {NULL_TEXT, ""} THEN row.error ELSE NULL_TEXT]

(* ------------------------------- Init ---------------------------------- *)
EmptyMap == [x \in {} |-> NULL]
NoLocals == [file |-> NULL_TEXT, documents |-> NULL, nodes |-> NULL, inserted |-> 0, error |-> NULL_TEXT]

NoRetrieve == [query |-> NULL_TEXT, k |-> NULL, vector |-> None, raises |-> FALSE, nodes |-> <<>>]
NoRerank == [nodes |-> <<>>, top_k |-> NULL, client |-> FALSE, service |-> None,
             returned |-> FALSE, raises |-> FALSE, result |-> <<>>]
NoExcerpt == [text |-> <<>>, query |-> NULL_TEXT, returned |-> FALSE, result |-> <<>>]
NoChunks == [documents |-> <<>>, returned |-> FALSE, nodes |-> <<>>]
NoHistory == [session_id |-> NULL, known |-> FALSE, code |-> 0, body |-> None]

SessionIds == 1..MaxSessions
Roles == {"user", "assistant"}
Queries == {"q"}
Threads == 1..MaxThreads
NoThread == [op |-> "none", batch |-> <<>>, tokenized |-> <<>>, scores |-> <<>>,
             query |-> NULL_TEXT, before |-> {},
             instance |-> 0, files |-> <<>>, docs |-> <<>>, uploads_remaining |-> NULL]
NoSearch == [query |-> NULL_TEXT, before |-> {}, result |-> <<>>]

\* the state of the program after start, but for the calls under test
InitProgram ==
    /\ max_conversation_history \in 0..MaxBound
    /\ sessions = EmptyMap
    /\ log = [s \in SessionIds |-> <<>>]
    /\ recentResp = [session |-> NULL, n |-> NULL, result |-> <<>>]
    /\ issued = [s \in SessionIds |-> 0]
    /\ answered = [s \in SessionIds |-> 0]
    /\ queryResp = [code |-> 0, answer |-> NULL_TEXT, sources |-> <<>>, session_id |-> NULL,
                    reranked_nodes |-> <<>>, generated |-> FALSE]
    /\ bm25_retriever = None
    /\ added = <<>>
    /\ retrieved = NoRetrieve
    /\ histResp = NoHistory
    /\ thrPc = [c \in Threads |-> "idle"]
    /\ thrLocals = [c \in Threads |-> NoThread]
    /\ hybrid_retriever = 0
    /\ instances = <<>>
    /\ searched = NoSearch
    /\ overlapped = FALSE
    /\ store = EmptyMap
    /\ task_statuses = EmptyMap
    /\ documents = EmptyMap
    /\ folders_today = 0
    /\ clock = 1
    /\ next_uuid = 1
    /\ upPc = "idle"
    /\ upFiles = <<>>
    /\ upDocs = <<>>
    /\ upTask = NULL
    /\ upRemaining = NULL
    /\ published = {}
    /\ created = {}
    /\ jobPc = [t \in TaskIds |-> "none"]
    /\ procPc = [t \in TaskIds |-> "idle"]
    /\ procLocals = [t \in TaskIds |-> NoLocals]
    /\ vector_index = {}
    /\ all_nodes = <<>>
    /\ taskResp = [task_id |-> NULL, code |-> 0, body |-> None]
    /\ upResp = [code |-> 0, documents |-> <<>>, uploads_remaining |-> NULL]

Init ==
    /\ InitProgram
    /\ rerank_top_k = RERANK_TOP_K
    /\ reranked = NoRerank
    /\ excerpt = NoExcerpt
    /\ chunked = NoChunks

(* --------------------------- lexical index ----------------------------- *)
\* a TextNode: its id, its content, and the folder_id key of its metadata,
\* which neither the loaders nor the chunker set
Node(id, text) == [node_id |-> id, text |-> text, folder_id |-> NULL_TEXT]

Texts == {"Q", "x", "q q"}
ChunkText(i) == CASE i % 3 = 1 -> "x" [] i % 3 = 2 -> "Q" [] OTHER -> "q q"

\* the nodes handed to the retriever and to the index directly
NodeIds == 1..MaxNodes
Nodes == {Node(<<0, i>>, ChunkText(i)) : i \in NodeIds}

\* text.lower().split()
Tokenize(text) ==
    CASE text \in {"Q", "q"} -> <<"q">>
      [] text = "x" -> <<"x">>
      [] text = "q q" -> <<"q", "q">>
      [] OTHER -> <<>>

\* the nodes of the docstore of the index: the Chroma vector store keeps the
\* text of the nodes itself, so the index puts none into its docstore
DocstoreDocs == <<>>

Occurrences(tokens, word) == Cardinality({i \in DOMAIN tokens : tokens[i] = word})

RECURSIVE TermFrequency(_, _)
TermFrequency(document, tokenized_query) ==
    IF tokenized_query = <<>> THEN 0
    ELSE Occurrences(document, Head(tokenized_query))
         + TermFrequency(document, Tail(tokenized_query))

\* BM25Okapi.get_scores: one score per document of the corpus; the ranking
\* function is reduced to the term frequency of the query's words
get_scores(corpus, tokenized_query) ==
    [i \in DOMAIN corpus |-> TermFrequency(corpus[i], tokenized_query)]

\* the Python slice seq[:k] for k >= 0
Prefix(seq, k) == SubSeq(seq, 1, Min(k, Len(seq)))

\* a descending sort that puts an entry before the earlier entries of its score
InsertByScore_before_equal(sorted, x) ==
    LET p == Cardinality({i \in DOMAIN sorted : sorted[i].score > x.score})
    IN SubSeq(sorted, 1, p) \o <<x>> \o SubSeq(sorted, p + 1, Len(sorted))

\* list.sort(key=score, reverse=True): entries of equal score keep their order
InsertByScore(sorted, x) ==
    LET p == Cardinality({i \in DOMAIN sorted : sorted[i].score >= x.score})
    IN SubSeq(sorted, 1, p) \o <<x>> \o SubSeq(sorted, p + 1, Len(sorted))

RECURSIVE SortByScore(_)
SortByScore(seq) ==
    IF seq = <<>> THEN <<>>
    ELSE InsertByScore(SortByScore(SubSeq(seq, 1, Len(seq) - 1)), seq[Len(seq)])

TextsOf(nodes) == [i \in DOMAIN nodes |-> nodes[i].text]
TokenizedCorpus(texts) == [i \in DOMAIN texts |-> Tokenize(texts[i])]

\* BM25Retriever(nodes): self.nodes is the list object it was given; shares
\* tells whether that object is also HybridRetriever.all_nodes
BM25Retriever(nodes, shares) ==
    [nodes |-> nodes, node_texts |-> TextsOf(nodes),
     bm25 |-> TokenizedCorpus(TextsOf(nodes)), shares |-> shares]

\* BM25Retriever.search: zip stops at the shorter of self.nodes and the scores
search(retriever, query, k) ==
    LET scores == get_scores(retriever.bm25, Tokenize(query))
        scored_nodes == [i \in 1..Min(Len(retriever.nodes), Len(scores)) |->
                            [node |-> retriever.nodes[i], score |-> scores[i]]]
    IN Prefix(SortByScore(scored_nodes), k)

\* BM25Retriever.add_nodes; nodes_now is self.nodes as the call finds it
Bm25AddNodes(retriever, nodes_now, nodes) ==
    LET node_texts == retriever.node_texts \o TextsOf(nodes) IN
    [nodes |-> nodes_now \o nodes, node_texts |-> node_texts,
     bm25 |-> TokenizedCorpus(node_texts), shares |-> retriever.shares]

\* HybridRetriever.add_nodes: the new all_nodes and bm25_retriever, and
\* whether the call raises (BM25Okapi divides by the size of the corpus)
add_nodes(all, retriever, nodes) ==
    LET extended == all \o nodes IN
    IF retriever = None
    THEN IF extended = <<>>
         THEN [all_nodes |-> extended, bm25_retriever |-> None, raises |-> TRUE]
         ELSE [all_nodes |-> extended, bm25_retriever |-> BM25Retriever(extended, TRUE),
               raises |-> FALSE]
    ELSE LET after == Bm25AddNodes(retriever,
                                   IF retriever.shares THEN extended ELSE retriever.nodes,
                                   nodes)
         IN [all_nodes |-> IF retriever.shares THEN after.nodes ELSE extended,
             bm25_retriever |-> after, raises |-> FALSE]

\* HybridRetriever._load_nodes_from_index
LoadNodesFromIndex(retriever) ==
    IF DocstoreDocs # <<>>
    THEN [all_nodes |-> DocstoreDocs, bm25_retriever |-> BM25Retriever(DocstoreDocs, TRUE)]
    ELSE [all_nodes |-> DocstoreDocs,
          bm25_retriever |-> IF retriever = None THEN None
                             ELSE [retriever EXCEPT !.shares = FALSE]]

(* -------------------------- hybrid retrieval --------------------------- *)
\* max([score ...], default=1.0)
MaxScoreOf(hits) ==
    IF hits = <<>> THEN 1
    ELSE CHOOSE m \in {hits[i].score : i \in DOMAIN hits} :
            \A i \in DOMAIN hits : hits[i].score <= m

\* score / max_score if max_score > 0 else 0.0, in units of 1/NormScale
Normalized(score, max_score) ==
    IF max_score > 0 THEN score * (NormScale \div max_score) ELSE 0

\* an accumulation that makes a new entry for every hit
Accumulate_appending(results, node, contribution) ==
    Append(results, [node |-> node, score |-> contribution])

\* results[node_id] = (node, current_score + weight * normalized_score)
Accumulate(results, node, contribution) ==
    IF \E i \in DOMAIN results : results[i].node.node_id = node.node_id
    THEN LET i == CHOOSE j \in DOMAIN results : results[j].node.node_id = node.node_id
         IN [results EXCEPT ![i] = [node |-> node, score |-> @.score + contribution]]
    ELSE Append(results, [node |-> node, score |-> contribution])

RECURSIVE AddHits(_, _, _, _)
AddHits(results, hits, weight, max_score) ==
    IF hits = <<>> THEN results
    ELSE AddHits(Accumulate(results, Head(hits).node,
                            weight * Normalized(Head(hits).score, max_score)),
                 Tail(hits), weight, max_score)

\* the loop over the lexical hits, then the loop over the vector hits
Fuse(retriever, vector_results, query, k) ==
    LET bm25_results == IF retriever # None THEN search(retriever, query, k * 2) ELSE <<>>
        lexical == AddHits(<<>>, bm25_results, 100 - hybrid_search_weight,
                           MaxScoreOf(bm25_results))
        fused == AddHits(lexical, Prefix(vector_results, k * 2), hybrid_search_weight,
                         MaxScoreOf(vector_results))
    IN Prefix(SortByScore(fused), k)

\* a retrieve that lets the failure of the vector query reach its caller
retrieve_propagating(retriever, vector, query, k) ==
    IF vector.raises
    THEN [raises |-> TRUE, nodes |-> <<>>]
    ELSE [raises |-> FALSE, nodes |-> Fuse(retriever, vector.hits, query, k)]

\* HybridRetriever.retrieve after _load_nodes_from_index; vector is what the
\* query of the vector index does: it raises, or it gives hits
retrieve(retriever, vector, query, k) ==
    [raises |-> FALSE,
     nodes |-> Fuse(retriever, IF vector.raises THEN <<>> ELSE vector.hits, query, k)]

(* ----------------------- the retriever's operations --------------------- *)
taskSansIndexClock == <<store, task_statuses, documents, folders_today, next_uuid,
                        upPc, upFiles, upDocs, upTask, upRemaining, published, created, jobPc,
                        procPc, procLocals, taskResp, upResp>>
taskSansIndex == <<taskSansIndexClock, clock>>
sessionVars == <<max_conversation_history, sessions, log, recentResp, issued, answered, queryResp,
                 rerank_top_k>>

Range(seq) == {seq[i] : i \in DOMAIN seq}

\* the batches handed to add_nodes and to add_documents: an empty list, or the
\* first node, in the order the nodes were made, that was not handed over yet
Batches(given) ==
    {<<>>} \cup {<<n>> : n \in {m \in Nodes \ given :
                                 \A o \in Nodes \ given : m.node_id[2] <= o.node_id[2]}}

\* the nodes in the order they were made, as one batch
AllNodes == [i \in NodeIds |-> Node(<<0, i>>, ChunkText(i))]

\* IndexManager.add_documents(nodes): the insert of node `inserted + 1` raises
\* when inserted < len(nodes)
IndexAddDocuments(nodes, inserted) ==
    /\ vector_index' = vector_index \cup {nodes[i] : i \in 1..inserted}
    /\ retrieved' = NoRetrieve
    /\ UNCHANGED <<taskSansIndex, all_nodes, sessionVars, threadVars, lexVars, reranked, excerpt, chunked, histResp>>

\* get_hybrid_retriever().add_nodes(nodes) with nodes it was not given before
AddNodes(nodes) ==
    /\ Range(nodes) \cap Range(added) = {}
    /\ LET r == add_nodes(all_nodes, bm25_retriever, nodes) IN
       /\ all_nodes' = r.all_nodes
       /\ bm25_retriever' = r.bm25_retriever
       /\ added' = IF r.raises THEN added ELSE added \o nodes
    /\ retrieved' = NoRetrieve
    /\ UNCHANGED <<taskSansIndex, vector_index, sessionVars, threadVars, reranked, excerpt, chunked, histResp>>

VecScores == {0, 1, 2}
TopKs == {0, 1, 2}

\* what the query of the vector index can do for similarity_top_k = limit:
\* raise, or give up to limit hits, best first, for nodes the index holds
VectorOutcomes(limit) ==
    LET Hit == [node : vector_index, score : VecScores]
        lists == UNION {[1..n -> Hit] : n \in 0..Min(limit, 2)}
    IN {[raises |-> TRUE, hits |-> <<>>]}
       \cup {[raises |-> FALSE, hits |-> h] : h \in
                {l \in lists : \A i, j \in DOMAIN l :
                    i < j => (l[i].node # l[j].node /\ l[i].score >= l[j].score)}}

\* get_hybrid_retriever().retrieve(query, k)
Retrieve(query, k, vector) ==
    /\ LET loaded == LoadNodesFromIndex(bm25_retriever)
           r == retrieve(loaded.bm25_retriever, vector, query, k)
       IN
       /\ all_nodes' = loaded.all_nodes
       /\ bm25_retriever' = loaded.bm25_retriever
       /\ retrieved' = [query |-> query, k |-> k, vector |-> vector,
                        raises |-> r.raises, nodes |-> r.nodes]
    /\ UNCHANGED <<taskSansIndex, vector_index, sessionVars, threadVars, added, reranked, excerpt, chunked, histResp>>

(* ------------------------------ reranker ------------------------------- *)
\* a rerank that lets the failure of the service reach its caller
rerank_propagating(nodes, k, client, service) ==
    IF nodes = <<>> THEN [raises |-> FALSE, result |-> <<>>]
    ELSE IF Len(nodes) <= k THEN [raises |-> FALSE, result |-> nodes]
    ELSE IF ~client THEN [raises |-> FALSE, result |-> Prefix(nodes, k)]
    ELSE IF service.raises \/ \E i \in DOMAIN service.results :
                                  service.results[i].index >= Len(nodes)
    THEN [raises |-> TRUE, result |-> <<>>]
    ELSE [raises |-> FALSE,
          result |-> [i \in DOMAIN service.results |->
                        [node |-> nodes[service.results[i].index + 1].node,
                         score |-> service.results[i].relevance_score]]]

\* CohereReranker.rerank(query, nodes, top_k); client tells whether self.client
\* is set, service is what self.client.rerank does: it raises, or it gives
\* results; an index past the end of nodes raises IndexError inside the try
rerank(nodes, k, client, service) ==
    IF nodes = <<>> THEN [raises |-> FALSE, result |-> <<>>]
    ELSE IF Len(nodes) <= k THEN [raises |-> FALSE, result |-> nodes]
    ELSE IF ~client THEN [raises |-> FALSE, result |-> Prefix(nodes, k)]
    ELSE IF service.raises \/ \E i \in DOMAIN service.results :
                                  service.results[i].index >= Len(nodes)
    THEN [raises |-> FALSE, result |-> Prefix(nodes, k)]
    ELSE [raises |-> FALSE,
          result |-> [i \in DOMAIN service.results |->
                        [node |-> nodes[service.results[i].index + 1].node,
                         score |-> service.results[i].relevance_score]]]

\* relevance scores 0, 0.04, 0.05 and 1.0 in units of 1/(100 * NormScale)
RelevanceScores == {0, 4 * NormScale, 5 * NormScale, 100 * NormScale}

\* what self.client.rerank can do for a list of n documents and top_n = k
ServiceOutcomes(n, k) ==
    LET Result == [index : 0..n, relevance_score : RelevanceScores]
    IN {[raises |-> TRUE, results |-> <<>>]}
       \cup {[raises |-> FALSE, results |-> r] :
                r \in UNION {[1..m -> Result] : m \in 0..Min(k, n)}}

\* the candidate lists handed to rerank: distinct nodes, best first
Candidates(from, scores, longest) ==
    LET Scored == [node : from, score : scores] IN
    {l \in UNION {[1..n -> Scored] : n \in 0..longest} :
        \A i, j \in DOMAIN l : i < j => (l[i].node # l[j].node /\ l[i].score >= l[j].score)}

\* the calls rerank(query, nodes, top_k) before they are made
RerankCalls(from) ==
    UNION {{[nodes |-> nodes, top_k |-> k, client |-> client, service |-> service,
             returned |-> FALSE, raises |-> FALSE, result |-> <<>>] :
              service \in ServiceOutcomes(Len(nodes), k)} :
           nodes \in Candidates(from, {50, 100}, 2), k \in TopKs, client \in BOOLEAN}

\* get_reranker().rerank(query, nodes, top_k)
Rerank ==
    /\ ~reranked.returned
    /\ reranked.top_k # NULL
    /\ LET r == rerank(reranked.nodes, reranked.top_k, reranked.client, reranked.service) IN
       reranked' = [reranked EXCEPT !.returned = TRUE, !.raises = r.raises,
                                    !.result = r.result]
    /\ UNCHANGED <<taskVars, sessionVars, threadVars, lexVars, retrieved, excerpt, chunked, histResp>>

(* ------------- the lexical index under concurrent threads -------------- *)
\* the statements of HybridRetriever.add_nodes, BM25Retriever.add_nodes and
\* BM25Retriever.search as steps of threads; a statement on a list (extend, a
\* comprehension over it, zip) is one step
SetThread(c, pc, locals) ==
    /\ thrPc' = [thrPc EXCEPT ![c] = pc]
    /\ thrLocals' = [thrLocals EXCEPT ![c] = locals]

lexFrame == <<taskSansIndex, vector_index, sessionVars, callVars, hybrid_retriever, instances>>
lexCallFrame == <<lexFrame, searched>>
lexSearchFrame == <<lexFrame, overlapped>>

\* threads are alike: a call is taken by the first thread that is free
Free(c) == thrPc[c] = "idle" /\ \A d \in Threads : d < c => thrPc[d] # "idle"

\* the nodes of the add_nodes calls that have not returned
InFlight == UNION {Range(thrLocals[c].batch) : c \in {d \in Threads : thrLocals[d].op = "add"}}

\* list.extend on the list object self.all_nodes, which is also the list of
\* the BM25Retriever when it shares it
ExtendAllNodes(nodes) ==
    /\ all_nodes' = all_nodes \o nodes
    /\ bm25_retriever' = IF bm25_retriever # None /\ bm25_retriever.shares
                         THEN [bm25_retriever EXCEPT !.nodes = @ \o nodes]
                         ELSE bm25_retriever

\* HybridRetriever.add_nodes(nodes): self.all_nodes.extend(nodes)
AddNodesExtend(c, nodes) ==
    /\ Free(c)
    /\ Range(nodes) \cap Range(added) = {}
    /\ ExtendAllNodes(nodes)
    /\ added' = added \o nodes
    /\ overlapped' = (overlapped \/ \E d \in Threads : thrLocals[d].op = "add")
    /\ SetThread(c, "branch", [NoThread EXCEPT !.op = "add", !.batch = nodes])
    /\ UNCHANGED lexCallFrame

\* if self.bm25_retriever is None: self.bm25_retriever = BM25Retriever(self.all_nodes),
\* where BM25Okapi raises ZeroDivisionError on an empty list and the call
\* has then added nothing
AddNodesBranch(c) ==
    /\ thrPc[c] = "branch"
    /\ IF bm25_retriever # None
       THEN /\ SetThread(c, "nodes", thrLocals[c])
            /\ UNCHANGED bm25_retriever
            /\ UNCHANGED added
       ELSE IF all_nodes = <<>>
       THEN /\ SetThread(c, "idle", NoThread)
            /\ added' = SelectSeq(added, LAMBDA n : n \notin Range(thrLocals[c].batch))
            /\ UNCHANGED bm25_retriever
       ELSE /\ SetThread(c, "idle", NoThread)
            /\ bm25_retriever' = BM25Retriever(all_nodes, TRUE)
            /\ UNCHANGED added
    /\ UNCHANGED <<lexCallFrame, overlapped, all_nodes>>

\* BM25Retriever.add_nodes: self.nodes.extend(nodes)
Bm25ExtendNodes(c) ==
    /\ thrPc[c] = "nodes"
    /\ IF bm25_retriever.shares
       THEN ExtendAllNodes(thrLocals[c].batch)
       ELSE /\ bm25_retriever' = [bm25_retriever EXCEPT !.nodes = @ \o thrLocals[c].batch]
            /\ UNCHANGED all_nodes
    /\ SetThread(c, "texts", thrLocals[c])
    /\ UNCHANGED <<lexCallFrame, overlapped, added>>

\* self.node_texts.extend(new_texts)
Bm25ExtendTexts(c) ==
    /\ thrPc[c] = "texts"
    /\ bm25_retriever' = [bm25_retriever EXCEPT !.node_texts = @ \o TextsOf(thrLocals[c].batch)]
    /\ SetThread(c, "tokenize", thrLocals[c])
    /\ UNCHANGED <<lexCallFrame, overlapped, all_nodes, added>>

\* all_tokenized = [text.lower().split() for text in self.node_texts]
Bm25Tokenize(c) ==
    /\ thrPc[c] = "tokenize"
    /\ SetThread(c, "assign",
                 [thrLocals[c] EXCEPT !.tokenized = TokenizedCorpus(bm25_retriever.node_texts)])
    /\ UNCHANGED <<lexCallFrame, overlapped, all_nodes, added, bm25_retriever>>

\* self.bm25 = BM25Okapi(all_tokenized), and the return of both add_nodes
Bm25Assign(c) ==
    /\ thrPc[c] = "assign"
    /\ bm25_retriever' = [bm25_retriever EXCEPT !.bm25 = thrLocals[c].tokenized]
    /\ SetThread(c, "idle", NoThread)
    /\ UNCHANGED <<lexCallFrame, overlapped, all_nodes, added>>

\* the start of HybridRetriever.retrieve: self._load_nodes_from_index(), then
\* if self.bm25_retriever
SearchLoad(c, q) ==
    /\ Free(c)
    /\ LET loaded == LoadNodesFromIndex(bm25_retriever)
           before == Range(added) \ InFlight
       IN /\ all_nodes' = loaded.all_nodes
          /\ bm25_retriever' = loaded.bm25_retriever
          /\ IF loaded.bm25_retriever = None
             THEN /\ SetThread(c, "idle", NoThread)
                  /\ searched' = [query |-> q, before |-> before, result |-> <<>>]
             ELSE /\ SetThread(c, "scores",
                               [NoThread EXCEPT !.op = "search", !.query = q, !.before = before])
                  /\ UNCHANGED searched
    /\ UNCHANGED <<lexSearchFrame, added>>

\* BM25Retriever.search: scores = self.bm25.get_scores(tokenized_query)
SearchScores(c) ==
    /\ thrPc[c] = "scores"
    /\ SetThread(c, "zip",
                 [thrLocals[c] EXCEPT
                     !.scores = get_scores(bm25_retriever.bm25, Tokenize(thrLocals[c].query))])
    /\ UNCHANGED <<lexCallFrame, overlapped, all_nodes, added, bm25_retriever>>

\* scored_nodes = list(zip(self.nodes, scores)), the sort and the slice
SearchZip(c) ==
    /\ thrPc[c] = "zip"
    /\ LET scores == thrLocals[c].scores
           scored_nodes == [i \in 1..Min(Len(bm25_retriever.nodes), Len(scores)) |->
                               [node |-> bm25_retriever.nodes[i], score |-> scores[i]]]
       IN searched' = [query |-> thrLocals[c].query, before |-> thrLocals[c].before,
                       result |-> Prefix(SortByScore(scored_nodes), top_k * 2)]
    /\ SetThread(c, "idle", NoThread)
    /\ UNCHANGED <<lexSearchFrame, all_nodes, added, bm25_retriever>>

(* ---------------------- the retriever singleton ------------------------ *)
\* get_hybrid_retriever as the statements of its callers' threads: the
\* ingestion jobs (tasks.py:38) and the query handler (routers.py:306)
singletonFrame == <<taskVars, sessionVars, lexVars, callVars, searched, overlapped>>

NewInstance == [nodes |-> {}, returned |-> FALSE]

\* the call, and the test: if _hybrid_retriever is None
GetRetrieverTest(c, op, nodes) ==
    /\ Free(c)
    /\ op = "query" => nodes = <<>>
    /\ op = "ingest" => /\ nodes # <<>>
                        /\ Range(nodes) \cap (InFlight \cup UNION {instances[i].nodes : i \in DOMAIN instances}) = {}
    /\ SetThread(c, IF hybrid_retriever = 0 THEN "construct" ELSE "return",
                 [NoThread EXCEPT !.op = IF op = "ingest" THEN "add" ELSE "search", !.batch = nodes])
    /\ UNCHANGED <<singletonFrame, hybrid_retriever, instances>>

\* _hybrid_retriever = HybridRetriever()
GetRetrieverAssign(c) ==
    /\ thrPc[c] = "construct"
    /\ instances' = Append(instances, NewInstance)
    /\ hybrid_retriever' = Len(instances) + 1
    /\ SetThread(c, "return", thrLocals[c])
    /\ UNCHANGED singletonFrame

\* return _hybrid_retriever
GetRetrieverReturn(c) ==
    /\ thrPc[c] = "return"
    /\ instances' = [instances EXCEPT ![hybrid_retriever].returned = TRUE]
    /\ SetThread(c, "got", [thrLocals[c] EXCEPT !.instance = hybrid_retriever])
    /\ UNCHANGED <<singletonFrame, hybrid_retriever>>

\* get_hybrid_retriever().add_nodes(nodes) of an ingestion job
IngestAddNodes(c) ==
    /\ thrPc[c] = "got" /\ thrLocals[c].op = "add"
    /\ instances' = [instances EXCEPT ![thrLocals[c].instance].nodes = @ \cup Range(thrLocals[c].batch)]
    /\ SetThread(c, "idle", NoThread)
    /\ UNCHANGED <<singletonFrame, hybrid_retriever>>

\* hybrid_retriever.retrieve(...) of the query handler, which reads only
QueryRetrieve(c) ==
    /\ thrPc[c] = "got" /\ thrLocals[c].op = "search"
    /\ SetThread(c, "idle", NoThread)
    /\ UNCHANGED <<singletonFrame, hybrid_retriever, instances>>

(* -------------------------- citation excerpts -------------------------- *)
\* a text is a sequence of runs of characters: a sentence (kind "s", with the
\* number of query words it contains), a separator matched by [.!?]+\s+
\* (kind "sep"), or an ellipsis
Run(kind, len, score) == [kind |-> kind, len |-> len, score |-> score]
Ellipsis == Run("...", 3, 0)
Joiner == Run("sep", 2, 0)

RECURSIVE TextLen(_)
TextLen(text) == IF text = <<>> THEN 0 ELSE Head(text).len + TextLen(Tail(text))

\* text[:n]
RECURSIVE Take(_, _)
Take(text, n) ==
    IF text = <<>> \/ n <= 0 THEN <<>>
    ELSE IF Head(text).len <= n
    THEN <<Head(text)>> \o Take(Tail(text), n - Head(text).len)
    ELSE <<[Head(text) EXCEPT !.len = n]>>

\* re.split(r"[.!?]+\s+", text), stripped, without the empty strings
Sentences(text) == SelectSeq(text, LAMBDA r : r.kind = "s" /\ r.len > 0)

\* a test that forgets the two characters of the joining ". "
Fits_without_joiner(summary, sent) == TextLen(summary) + sent.len <= max_length

\* len(summary) + len(sent) + 2 <= max_length
Fits(summary, sent) == TextLen(summary) + sent.len + 2 <= max_length

\* the loop that builds the summary, up to its break
RECURSIVE BuildSummary(_, _)
BuildSummary(summary, sentences) ==
    IF sentences = <<>> \/ ~Fits(summary, Head(sentences)) THEN summary
    ELSE BuildSummary((IF summary # <<>> THEN Append(summary, Joiner) ELSE summary)
                         \o <<Head(sentences)>>,
                      Tail(sentences))

\* _extract_key_sentences(text, query); query NULL_TEXT is None
extract_key_sentences(text, query) ==
    IF TextLen(text) <= max_length THEN text
    ELSE LET sentences == Sentences(text) IN
         IF sentences = <<>> THEN Append(Take(text, max_length), Ellipsis)
         ELSE LET ordered == IF query # NULL_TEXT THEN SortByScore(sentences) ELSE sentences
                  summary == BuildSummary(<<>>, ordered)
              IN IF summary # <<>> THEN Append(summary, Ellipsis)
                 ELSE Append(Take(text, max_length), Ellipsis)

SentenceLengths == {60, 99, 100, 198, 199, 201}

\* sentences joined by ". ", and a text of separators only
ExcerptTexts ==
    LET Sentence == {Run("s", l, h) : l \in SentenceLengths, h \in {0, 1}}
        Joined(sents) == [i \in 1..(2 * Len(sents) - 1) |->
                             IF i % 2 = 1 THEN sents[(i + 1) \div 2] ELSE Joiner]
    IN {<<>>, <<Run("sep", 250, 0)>>}
       \cup {Joined(sents) : sents \in UNION {[1..n -> Sentence] : n \in 1..MaxSentences}}

\* the calls _extract_key_sentences(text, query) before they are made
ExcerptCalls ==
    {[text |-> text, query |-> query, returned |-> FALSE, result |-> <<>>] :
        text \in ExcerptTexts, query \in Queries \cup {NULL_TEXT}}

ExtractKeySentences ==
    /\ ~excerpt.returned
    /\ excerpt' = [excerpt EXCEPT !.returned = TRUE,
                                  !.result = extract_key_sentences(excerpt.text, excerpt.query)]
    /\ UNCHANGED <<taskVars, sessionVars, threadVars, lexVars, retrieved, reranked, chunked, histResp>>

(* ------------------------------ chunker -------------------------------- *)
\* a document is its metadata and the spans the splitter cuts its text into,
\* each span the number of its characters; metadata is a dict, a key it does
\* not hold is outside its DOMAIN
DocNames == {"a.pdf"}
SpanLengths == {0, 3}

DocMetadata ==
    {[page_number |-> 1]} \cup {[file_name |-> f, page_number |-> 1] : f \in DocNames}

Documents ==
    UNION {[1..n -> [metadata : DocMetadata,
                     spans : UNION {[1..m -> SpanLengths] : m \in 0..MaxSpans}]]
              : n \in 0..MaxDocuments}

\* a counter that forgets where the chunk started
NextPosition_restarting(start_char_idx, chunk_length) == chunk_length

\* node.metadata["start_char_idx"] + chunk_length
NextPosition(start_char_idx, chunk_length) == start_char_idx + chunk_length

\* the inner loop over the spans of one document
RECURSIVE ChunkSpans(_, _, _, _)
ChunkSpans(spans, doc_metadata, char_position_map, nodes) ==
    IF spans = <<>> THEN [char_position_map |-> char_position_map, nodes |-> nodes]
    ELSE LET named == IF "file_name" \in DOMAIN doc_metadata THEN doc_metadata
                      ELSE Put(doc_metadata, "file_name", "unknown")
             doc_name == named.file_name
             start == IF "start_char_idx" \in DOMAIN named THEN named.start_char_idx
                      ELSE IF doc_name \in DOMAIN char_position_map
                      THEN char_position_map[doc_name] ELSE 0
             node == [length |-> Head(spans),
                      metadata |-> Put(named, "start_char_idx", start)]
         IN ChunkSpans(Tail(spans), doc_metadata,
                       Put(char_position_map, doc_name, NextPosition(start, Head(spans))),
                       Append(nodes, node))

\* the outer loop over the documents
RECURSIVE ChunkFrom(_, _, _)
ChunkFrom(docs, char_position_map, nodes) ==
    IF docs = <<>> THEN nodes
    ELSE LET done == ChunkSpans(Head(docs).spans, Head(docs).metadata,
                                char_position_map, nodes)
         IN ChunkFrom(Tail(docs), done.char_position_map, done.nodes)

\* chunk_documents(documents)
chunk_documents(docs) == ChunkFrom(docs, <<>>, <<>>)

\* the calls chunk_documents(documents) before they are made
ChunkCalls == {[documents |-> d, returned |-> FALSE, nodes |-> <<>>] : d \in Documents}

ChunkDocuments ==
    /\ ~chunked.returned
    /\ chunked' = [chunked EXCEPT !.returned = TRUE,
                                  !.nodes = chunk_documents(chunked.documents)]
    /\ UNCHANGED <<taskVars, sessionVars, threadVars, lexVars, retrieved, reranked, excerpt, histResp>>

(* --------------------------- POST /upload ------------------------------ *)
FileLists == UNION {[1..n -> FileNames] : n \in 0..MaxFiles}

\* the end of one iteration of the loop over files
NextFile(entry) ==
    /\ upDocs' = Append(upDocs, entry)
    /\ upFiles' = Tail(upFiles)
    /\ upTask' = NULL
    /\ upPc' = IF Len(upFiles) > 1 THEN "save" ELSE "return"

FailedEntry(e) == [filename |-> Head(upFiles), task_id |-> NULL, status |-> "failed", error |-> e]

\* if folders_today >= DAILY_UPLOAD_LIMIT, taken one folder late
LimitReached_off_by_one(count) == count > DAILY_UPLOAD_LIMIT

\* if folders_today >= DAILY_UPLOAD_LIMIT
LimitReached(count) == count >= DAILY_UPLOAD_LIMIT

\* the limit check, the check for files, and the creation of the folder
UploadStart(files) ==
    /\ UNCHANGED memVars
    /\ upPc = "idle"
    /\ next_uuid + Len(files) - 1 <= MaxTasks
    /\ IF LimitReached(folders_today)
       THEN /\ upResp' = [code |-> 429, documents |-> <<>>, uploads_remaining |-> NULL]
            /\ UNCHANGED <<folders_today, upPc, upFiles, upDocs, upRemaining>>
       ELSE IF Len(files) = 0
       THEN /\ upResp' = [code |-> 400, documents |-> <<>>, uploads_remaining |-> NULL]
            /\ UNCHANGED <<folders_today, upPc, upFiles, upDocs, upRemaining>>
       ELSE /\ folders_today' = folders_today + 1
            /\ upRemaining' = DAILY_UPLOAD_LIMIT - folders_today - 1
            /\ upFiles' = files
            /\ upDocs' = <<>>
            /\ upPc' = "save"
            /\ UNCHANGED upResp
    /\ UNCHANGED <<store, task_statuses, documents, clock, next_uuid, upTask, published,
                   created, jobPc, procPc, procLocals, vector_index, all_nodes, taskResp>>

\* task_id = str(uuid.uuid4()), then the file is written to disk
UploadSaveFile(ok) ==
    /\ UNCHANGED memVars
    /\ upPc = "save"
    /\ next_uuid' = next_uuid + 1
    /\ IF ok
       THEN /\ upTask' = next_uuid
            /\ upPc' = "create_task"
            /\ UNCHANGED <<upFiles, upDocs>>
       ELSE NextFile(FailedEntry("boom"))
    /\ UNCHANGED <<store, task_statuses, documents, folders_today, clock, upRemaining,
                   published, created, jobPc, procPc, procLocals, vector_index, all_nodes,
                   taskResp, upResp>>

\* create_task(task_id, file.filename)
UploadCreateTask(ok) ==
    /\ UNCHANGED memVars
    /\ upPc = "create_task"
    /\ clock < MaxClock
    /\ IF ok
       THEN /\ store' = create_task(store, upTask, Head(upFiles), clock)
            /\ created' = created \cup {upTask}
            /\ clock' = clock + 1
            /\ upPc' = "create_doc"
            /\ UNCHANGED <<upFiles, upDocs, upTask>>
       ELSE /\ NextFile(FailedEntry("boom"))
            /\ UNCHANGED <<store, created, clock>>
    /\ UNCHANGED <<task_statuses, documents, folders_today, next_uuid, upRemaining,
                   published, jobPc, procPc, procLocals, vector_index, all_nodes,
                   taskResp, upResp>>

\* the Document row is added and committed
UploadCreateDocument(ok) ==
    /\ UNCHANGED memVars
    /\ upPc = "create_doc"
    /\ IF ok
       THEN /\ documents' = Put(documents, upTask,
                                [status |-> PROCESSING, filename |-> Head(upFiles),
                                 folder_id |-> folders_today])
            /\ upPc' = "schedule"
            /\ UNCHANGED <<upFiles, upDocs, upTask>>
       ELSE /\ NextFile(FailedEntry("boom"))
            /\ UNCHANGED documents
    /\ UNCHANGED <<store, task_statuses, folders_today, clock, next_uuid, upRemaining,
                   published, created, jobPc, procPc, procLocals, vector_index, all_nodes,
                   taskResp, upResp>>

\* background_tasks.add_task(...) and the entry of the response
UploadSchedule ==
    /\ UNCHANGED memVars
    /\ upPc = "schedule"
    /\ jobPc' = [jobPc EXCEPT ![upTask] = "scheduled"]
    /\ published' = published \cup {upTask}
    /\ NextFile([filename |-> Head(upFiles), task_id |-> upTask,
                 status |-> PROCESSING, error |-> NULL_TEXT])
    /\ UNCHANGED <<store, task_statuses, documents, folders_today, clock, next_uuid,
                   upRemaining, created, procPc, procLocals, vector_index, all_nodes,
                   taskResp, upResp>>

\* the response is returned; the background tasks of the request run after it
UploadReturn ==
    /\ UNCHANGED memVars
    /\ upPc = "return"
    /\ upResp' = [code |-> 200, documents |-> upDocs, uploads_remaining |-> upRemaining]
    /\ jobPc' = [t \in TaskIds |-> IF jobPc[t] = "scheduled" THEN "ready" ELSE jobPc[t]]
    /\ upPc' = "idle"
    /\ upDocs' = <<>>
    /\ upRemaining' = NULL
    /\ UNCHANGED <<store, task_statuses, documents, folders_today, clock, next_uuid,
                   upFiles, upTask, published, created, procPc, procLocals, vector_index,
                   all_nodes, taskResp>>

(* ------------------ POST /upload, requests side by side ---------------- *)
\* upload is a coroutine on the one event loop of the process: a request runs
\* alone up to its next await, and the only await of the handler is
\* await file.read() in the loop over the files
\* the requests carry no file or one file, whose await is where they interleave
RequestFiles == {<<>>, <<"a.pdf">>}

requestFrame == <<task_statuses, upPc, upFiles, upDocs, upTask, upRemaining, procPc, procLocals,
                  vector_index, all_nodes, taskResp, sessionVars, lexVars, callVars,
                  hybrid_retriever, instances, searched, overlapped>>

\* the handler up to the first await: the limit check, the check for files
\* and the committed Folder row, whose created_at is read at the insert and
\* falls on the next day when midnight passes after the count
UploadRequestStart(c, files, midnight) ==
    /\ Free(c)
    /\ IF LimitReached(folders_today)
       THEN /\ upResp' = [code |-> 429, documents |-> <<>>, uploads_remaining |-> NULL]
            /\ UNCHANGED <<folders_today, thrPc, thrLocals>>
       ELSE IF Len(files) = 0
       THEN /\ upResp' = [code |-> 400, documents |-> <<>>, uploads_remaining |-> NULL]
            /\ UNCHANGED <<folders_today, thrPc, thrLocals>>
       ELSE /\ folders_today' = IF midnight THEN 1 ELSE folders_today + 1
            /\ SetThread(c, "read",
                         [NoThread EXCEPT !.op = "upload", !.files = files,
                                          !.uploads_remaining =
                                              DAILY_UPLOAD_LIMIT - folders_today - 1])
            /\ UNCHANGED upResp
    /\ UNCHANGED <<requestFrame, store, created, clock, next_uuid, documents, jobPc, published>>

\* one iteration of the loop from the return of await file.read(): the file
\* is written, the task and the Document row are created and the job is
\* scheduled, or an exception ends the iteration with a failed entry; the
\* handler then runs on to the await of the next file or, after the last
\* file, to the response, after which the background tasks of the request run
UploadRequestFile(c, outcome) ==
    /\ thrPc[c] = "read"
    /\ LET filename == Head(thrLocals[c].files)
           failed == [filename |-> filename, task_id |-> NULL, status |-> "failed",
                      error |-> "boom"]
           entry == IF outcome = "ok"
                    THEN [filename |-> filename, task_id |-> next_uuid,
                          status |-> PROCESSING, error |-> NULL_TEXT]
                    ELSE failed
           docs == Append(thrLocals[c].docs, entry)
           last == Len(thrLocals[c].files) = 1
           scheduled == IF outcome = "ok" THEN [jobPc EXCEPT ![next_uuid] = "scheduled"]
                        ELSE jobPc
       IN /\ IF outcome = "failed"
             THEN UNCHANGED <<store, created, clock, next_uuid>>
             ELSE /\ next_uuid <= MaxTasks
                  /\ clock < MaxClock
                  /\ store' = create_task(store, next_uuid, filename, clock)
                  /\ created' = created \cup {next_uuid}
                  /\ clock' = clock + 1
                  /\ next_uuid' = next_uuid + 1
          /\ IF outcome = "ok"
             THEN /\ documents' = Put(documents, next_uuid,
                                      [status |-> PROCESSING, filename |-> filename,
                                       folder_id |-> folders_today])
                  /\ published' = published \cup {next_uuid}
             ELSE UNCHANGED <<documents, published>>
          /\ IF last
             THEN /\ upResp' = [code |-> 200, documents |-> docs,
                                uploads_remaining |-> thrLocals[c].uploads_remaining]
                  /\ jobPc' = [t \in TaskIds |->
                                  IF \E i \in DOMAIN docs : docs[i].task_id = t
                                  THEN "ready" ELSE scheduled[t]]
                  /\ SetThread(c, "idle", NoThread)
             ELSE /\ jobPc' = scheduled
                  /\ SetThread(c, "read", [thrLocals[c] EXCEPT !.files = Tail(@), !.docs = docs])
                  /\ UNCHANGED upResp
    /\ UNCHANGED <<requestFrame, folders_today>>

\* datetime.utcnow() passes midnight: no Folder row is of today any more
Midnight ==
    /\ folders_today > 0
    /\ folders_today' = 0
    /\ UNCHANGED <<requestFrame, thrPc, thrLocals, upResp, store, created, clock, next_uuid,
                   documents, jobPc, published>>

(* ------------------- the background job of an upload ------------------- *)
\* Python binds the positional arguments of a call to the parameters of the
\* function, none of which has a default, and raises TypeError when their
\* numbers differ
BindsArguments(args, params) == Len(args) = Len(params)

SetLocals(t, field, v) == [procLocals EXCEPT ![t] = [procLocals[t] EXCEPT ![field] = v]]

\* background tasks of one request run one after the other, in the order added
EarlierJobsDone(t) ==
    \A u \in DOMAIN documents :
        (u < t /\ documents[u].folder_id = documents[t].folder_id /\ jobPc[u] # "none")
            => jobPc[u] = "done"

\* process_and_index_document_with_status: the call of process_and_index_document
JobCall(t) ==
    /\ UNCHANGED memVars
    /\ jobPc[t] = "ready"
    /\ EarlierJobsDone(t)
    /\ IF BindsArguments(CallArgs, ProcParams)
       THEN /\ jobPc' = [jobPc EXCEPT ![t] = "in_call"]
            /\ procPc' = [procPc EXCEPT ![t] = "load"]
            /\ procLocals' = SetLocals(t, "file", documents[t].filename)
       ELSE /\ jobPc' = [jobPc EXCEPT ![t] = "except"]
            /\ UNCHANGED <<procPc, procLocals>>
    /\ UNCHANGED <<store, task_statuses, documents, folders_today, clock, next_uuid,
                   upPc, upFiles, upDocs, upTask, upRemaining, published, created,
                   vector_index, all_nodes, taskResp, upResp>>

\* process_and_index_document_with_status: the update of the Document row, after
\* the call returned (from the task's status) or in the handler of its exception
JobFinish(t) ==
    /\ UNCHANGED memVars
    /\ jobPc[t] \in {"returned", "except"}
    /\ LET task == get_task(store, t)
           status == IF jobPc[t] = "returned" /\ task # None /\ task.status = COMPLETED
                     THEN COMPLETED ELSE FAILED
       IN documents' = [documents EXCEPT ![t] = [documents[t] EXCEPT !.status = status]]
    /\ jobPc' = [jobPc EXCEPT ![t] = "done"]
    /\ UNCHANGED <<store, task_statuses, folders_today, clock, next_uuid,
                   upPc, upFiles, upDocs, upTask, upRemaining, published, created, procPc,
                   procLocals, vector_index, all_nodes, taskResp, upResp>>

(* --------------------- process_and_index_document ---------------------- *)
procFrame == <<store, documents, folders_today, next_uuid, upPc, upFiles, upDocs,
               upTask, upRemaining, published, created, taskResp, upResp>>

Raise(t, e) ==
    /\ procPc' = [procPc EXCEPT ![t] = "except"]
    /\ procLocals' = SetLocals(t, "error", e)

\* a call process_and_index_document(file_path, task_id) for a created task
DirectCall(t, file) ==
    /\ UNCHANGED memVars
    /\ t \in published /\ t \in DOMAIN store
    /\ jobPc[t] = "none"
    /\ procPc[t] = "idle"
    /\ procPc' = [procPc EXCEPT ![t] = "load"]
    /\ procLocals' = SetLocals(t, "file", file)
    /\ UNCHANGED <<procFrame, task_statuses, clock, jobPc, vector_index, all_nodes>>

\* documents = load_document(file_path)
ProcLoad(t, ok, n) ==
    /\ UNCHANGED memVars
    /\ procPc[t] = "load"
    /\ IF procLocals[t].file \notin SupportedFiles
       THEN Raise(t, "Unsupported file type")
       ELSE IF ~ok
       THEN Raise(t, "boom")
       ELSE /\ procPc' = [procPc EXCEPT ![t] = "chunk"]
            /\ procLocals' = SetLocals(t, "documents", n)
    /\ UNCHANGED <<procFrame, task_statuses, clock, jobPc, vector_index, all_nodes>>

\* a job that goes from chunking straight to the status write
ProcChunk_skipping_index(t, ok, k) ==
    /\ UNCHANGED memVars
    /\ procPc[t] = "chunk"
    /\ IF ~ok
       THEN Raise(t, "boom")
       ELSE /\ procPc' = [procPc EXCEPT ![t] = "status"]
            /\ procLocals' = SetLocals(t, "nodes", k)
    /\ UNCHANGED <<procFrame, task_statuses, clock, jobPc, vector_index, all_nodes>>

\* nodes = chunk_documents(documents)
ProcChunk(t, ok, k) ==
    /\ UNCHANGED memVars
    /\ procPc[t] = "chunk"
    /\ IF ~ok
       THEN Raise(t, "boom")
       ELSE /\ procPc' = [procPc EXCEPT ![t] = IF k = 0 THEN "add_nodes" ELSE "insert"]
            /\ procLocals' = SetLocals(t, "nodes", k)
    /\ UNCHANGED <<procFrame, task_statuses, clock, jobPc, vector_index, all_nodes>>

\* index_manager.add_documents(nodes): one insert of the loop over nodes
ProcInsert(t, ok) ==
    /\ UNCHANGED memVars
    /\ procPc[t] = "insert"
    /\ IF ~ok
       THEN /\ Raise(t, "boom")
            /\ UNCHANGED vector_index
       ELSE LET i == procLocals[t].inserted + 1 IN
            /\ vector_index' = vector_index \cup {Node(<<t, i>>, ChunkText(i))}
            /\ procLocals' = SetLocals(t, "inserted", i)
            /\ procPc' = [procPc EXCEPT ![t] = IF i = procLocals[t].nodes
                                                THEN "add_nodes" ELSE "insert"]
    /\ UNCHANGED <<procFrame, task_statuses, clock, jobPc, all_nodes>>

\* get_hybrid_retriever().add_nodes(nodes)
ProcAddNodes(t) ==
    /\ procPc[t] = "add_nodes"
    /\ LET nodes == [i \in 1..procLocals[t].nodes |-> Node(<<t, i>>, ChunkText(i))]
           r == add_nodes(all_nodes, bm25_retriever, nodes)
       IN
       /\ all_nodes' = r.all_nodes
       /\ bm25_retriever' = r.bm25_retriever
       /\ added' = IF r.raises THEN added ELSE added \o nodes
       /\ IF r.raises
          THEN Raise(t, "boom")
          ELSE /\ procPc' = [procPc EXCEPT ![t] = "status"]
               /\ UNCHANGED procLocals
    /\ UNCHANGED <<procFrame, task_statuses, clock, jobPc, vector_index, sessionVars, threadVars, callVars>>

\* task_statuses.get(task_id, {}).get("created_at")
CreatedAtOf(ts, t) == IF t \in DOMAIN ts THEN ts[t].created_at ELSE NULL

ReturnToJob(t) ==
    jobPc' = [jobPc EXCEPT ![t] = IF jobPc[t] = "in_call" THEN "returned" ELSE jobPc[t]]

\* the write of the completed status that ends the try block
ProcWriteCompleted(t) ==
    /\ UNCHANGED memVars
    /\ procPc[t] = "status"
    /\ clock < MaxClock
    /\ task_statuses' = Put(task_statuses, t,
          [ok |-> TRUE, status |-> COMPLETED, filename |-> procLocals[t].file,
           created_at |-> CreatedAtOf(task_statuses, t), completed_at |-> clock,
           failed_at |-> NULL, chunks |-> procLocals[t].nodes,
           pages |-> procLocals[t].documents, error |-> NULL_TEXT])
    /\ clock' = clock + 1
    /\ procPc' = [procPc EXCEPT ![t] = "done"]
    /\ ReturnToJob(t)
    /\ UNCHANGED <<procFrame, procLocals, vector_index, all_nodes>>

\* except Exception as e: the write of the failed status
ProcWriteFailed(t) ==
    /\ UNCHANGED memVars
    /\ procPc[t] = "except"
    /\ clock < MaxClock
    /\ task_statuses' = Put(task_statuses, t,
          [ok |-> FALSE, status |-> FAILED, filename |-> procLocals[t].file,
           created_at |-> CreatedAtOf(task_statuses, t), completed_at |-> NULL,
           failed_at |-> clock, chunks |-> NULL, pages |-> NULL,
           error |-> procLocals[t].error])
    /\ clock' = clock + 1
    /\ procPc' = [procPc EXCEPT ![t] = "done"]
    /\ ReturnToJob(t)
    /\ UNCHANGED <<procFrame, procLocals, vector_index, all_nodes>>

(* ------------------ the operations of the task store ------------------- *)
storeFrame == <<task_statuses, documents, folders_today, upPc, upFiles, upDocs,
                upTask, upRemaining, jobPc, procPc, procLocals, vector_index,
                all_nodes, upResp>>

\* create_task(task_id, filename) with a fresh id, outside an upload
CreateTask(filename) ==
    /\ UNCHANGED memVars
    /\ upPc = "idle"
    /\ next_uuid <= MaxTasks
    /\ clock < MaxClock
    /\ store' = create_task(store, next_uuid, filename, clock)
    /\ published' = published \cup {next_uuid}
    /\ created' = created \cup {next_uuid}
    /\ next_uuid' = next_uuid + 1
    /\ clock' = clock + 1
    /\ UNCHANGED <<storeFrame, taskResp>>

\* a caller holds the id of a task that left the handler that made it, or
\* makes up an id that no task has
CallerHolds(t) == t \in published \/ t >= next_uuid

\* complete_task(task_id, chunks, pages)
CompleteTask(t, chunks, pages) ==
    /\ UNCHANGED memVars
    /\ CallerHolds(t)
    /\ clock < MaxClock
    /\ store' = complete_task(store, t, chunks, pages, clock)
    /\ clock' = clock + 1
    /\ UNCHANGED <<storeFrame, next_uuid, published, created, taskResp>>

\* fail_task(task_id, error)
FailTask(t, error) ==
    /\ UNCHANGED memVars
    /\ CallerHolds(t)
    /\ clock < MaxClock
    /\ store' = fail_task(store, t, error, clock)
    /\ clock' = clock + 1
    /\ UNCHANGED <<storeFrame, next_uuid, published, created, taskResp>>

\* GET /tasks/{task_id}
GetTaskRequest(t) ==
    /\ UNCHANGED memVars
    /\ LET task == get_task(store, t) IN
       taskResp' = IF task = None
                   THEN [task_id |-> t, code |-> 404, body |-> None]
                   ELSE [task_id |-> t, code |-> 200, body |-> task]
    /\ UNCHANGED <<storeFrame, store, clock, next_uuid, published, created>>

(* ------------------------ ConversationMemory --------------------------- *)
\* the Python slice h[-k:] for k >= 0: h[-0:] is h[0:], the whole list
SliceFromMinus(h, k) ==
    IF k = 0 THEN h ELSE SubSeq(h, Max(1, Len(h) - k + 1), Len(h))

Message(role, content, now, metadata) ==
    [role |-> role, content |-> content, timestamp |-> now, metadata |-> metadata]

\* self.sessions.get(session_id, [])
get_history(sess, session_id) ==
    IF session_id \in DOMAIN sess THEN sess[session_id] ELSE <<>>

\* add_message that starts the transcript over with the message
add_message_replacing(sess, session_id, message, bound) ==
    Put(sess, session_id, <<message>>)

\* add_message that trims to the bound instead of twice the bound
add_message_single_bound(sess, session_id, message, bound) ==
    LET appended == Append(get_history(sess, session_id), message)
    IN Put(sess, session_id,
           IF Len(appended) > bound
           THEN SliceFromMinus(appended, bound)
           ELSE appended)

add_message(sess, session_id, message, bound) ==
    LET appended == Append(get_history(sess, session_id), message)
    IN Put(sess, session_id,
           IF Len(appended) > bound * 2
           THEN SliceFromMinus(appended, bound * 2)
           ELSE appended)

\* n = None stands for the configured bound
get_recent_history(sess, session_id, n, bound) ==
    LET k == IF n = NULL THEN bound ELSE n
        history == get_history(sess, session_id)
    IN IF Len(history) > k THEN SliceFromMinus(history, k) ELSE history

\* clear_session that empties the whole store
clear_session_all(sess, session_id) ==
    IF session_id \in DOMAIN sess THEN EmptyMap ELSE sess

clear_session(sess, session_id) ==
    [x \in DOMAIN sess \ {session_id} |-> sess[x]]

memFrame == <<max_conversation_history, issued, answered, queryResp, rerank_top_k,
              lexVars, callVars, threadVars>>

AddMessage(s, role, content, metadata) ==
    /\ UNCHANGED taskSansClock
    /\ clock <= MaxMsgs
    /\ clock' = clock + 1
    /\ LET m == Message(role, content, clock, metadata) IN
       /\ sessions' = add_message(sessions, s, m, max_conversation_history)
       /\ log' = [log EXCEPT ![s] = Append(log[s], m)]
    /\ UNCHANGED <<memFrame, recentResp>>

GetRecentHistory(s, n) ==
    /\ UNCHANGED taskVars
    /\ recentResp' = [session |-> s, n |-> n,
                      result |-> get_recent_history(sessions, s, n, max_conversation_history)]
    /\ UNCHANGED <<memFrame, sessions, log>>

ClearSession(s) ==
    /\ UNCHANGED taskVars
    /\ sessions' = clear_session(sessions, s)
    /\ log' = [log EXCEPT ![s] = IF s \in DOMAIN sessions THEN <<>> ELSE log[s]]
    /\ UNCHANGED <<memFrame, recentResp>>

(* ---------------------- GET /sessions/{session_id} --------------------- *)
\* what the handler returns for a history, with the status FastAPI gives a
\* returned dict
HistoryResponse(session_id, history) ==
    [code |-> 200, body |-> [session_id |-> session_id, history |-> history]]

\* known is whether the store held the session when it was asked for
GetHistoryRequest(s) ==
    /\ UNCHANGED taskVars
    /\ LET history == get_history(sessions, s)
           response == HistoryResponse(s, history)
       IN histResp' = [session_id |-> s, known |-> s \in DOMAIN sessions,
                       code |-> response.code, body |-> response.body]
    /\ UNCHANGED <<sessionVars, threadVars, lexVars, retrieved, reranked, excerpt, chunked>>

(* ----------------------------- POST /query ----------------------------- *)
NO_RELEVANT == "I couldn't find any relevant information in the selected folder's documents."
NOT_SUFFICIENT == "I couldn't find any sufficiently relevant information in the documents to answer your question."
ANSWER == "answer"

\* an id no session was given before, as uuid4 makes one
FreshSessions == {x \in SessionIds : x \notin DOMAIN sessions /\ issued[x] = 0 /\ log[x] = <<>>}

\* a filter that keeps every node
AboveThreshold_keeping_all(nodes) == nodes

\* [node for node in reranked_nodes if node.score >= RELEVANCE_THRESHOLD]
AboveThreshold(nodes) ==
    SelectSeq(nodes, LAMBDA n : n.score >= RELEVANCE_THRESHOLD * NormScale)

\* str(node.metadata.get("folder_id", "")) == str(request.folder_id)
InFolder(nodes, folder_id) ==
    SelectSeq(nodes, LAMBDA n : (IF n.node.folder_id = NULL_TEXT THEN "" ELSE n.node.folder_id)
                                   = folder_id)

\* round(float(score), 4): a score in units of 1/(100 * NormScale), in units of 1/10000
Round4(score) == score * (10000 \div (100 * NormScale))

\* extract_citations; the texts of the nodes are shorter than an excerpt
extract_citations(nodes) ==
    [i \in DOMAIN nodes |->
        [node_id |-> nodes[i].node.node_id, chunk_text |-> nodes[i].node.text,
         relevance_score |-> Round4(nodes[i].score)]]

\* a handler without the test for an empty retrieval
QueryOutcome_unchecked(retrieved_nodes, kept, raises) ==
    IF kept = <<>> THEN "not_sufficient"
    ELSE IF raises = "generate_answer" THEN "error"
    ELSE "answer"

\* the returns of the handler, in the order of its tests
QueryOutcome(retrieved_nodes, kept, raises) ==
    IF retrieved_nodes = <<>> THEN "no_relevant"
    ELSE IF kept = <<>> THEN "not_sufficient"
    ELSE IF raises = "generate_answer" THEN "error"
    ELSE "answer"

NoService == [raises |-> FALSE, results |-> <<>>]
Folders == {NULL_TEXT, "f"}

\* get_hybrid_retriever().retrieve(request.query), then the folder filter
RetrievedFor(q, folder_id, vector) ==
    LET found == retrieve(LoadNodesFromIndex(bm25_retriever).bm25_retriever, vector, q, top_k).nodes
    IN IF folder_id # NULL_TEXT THEN InFolder(found, folder_id) ELSE found

\* the handler of POST /query; vector is what the query of the vector index
\* does, client and service what the reranker has and what its service does,
\* raises names the call that raises, if one does
Query(s, q, folder_id, vector, client, service, raises) ==
    /\ UNCHANGED <<taskSansIndexClock, vector_index>>
    /\ s = NULL => FreshSessions # {}
    /\ LET session_id == IF s = NULL THEN CHOOSE x \in FreshSessions : TRUE ELSE s
           loaded == LoadNodesFromIndex(bm25_retriever)
           retrieved_nodes == RetrievedFor(q, folder_id, vector)
           reranked_nodes == rerank(retrieved_nodes, rerank_top_k, client, service).result
           kept == AboveThreshold(reranked_nodes)
           outcome == QueryOutcome(retrieved_nodes, kept, raises)
           response(code, answer, sources, id) ==
               [code |-> code, answer |-> answer, sources |-> sources, session_id |-> id,
                reranked_nodes |-> reranked_nodes,
                generated |-> outcome \in {"error", "answer"}]
       IN
       /\ issued[session_id] < MaxQueries
       /\ issued' = [issued EXCEPT ![session_id] = @ + 1]
       /\ all_nodes' = loaded.all_nodes
       /\ bm25_retriever' = loaded.bm25_retriever
       /\ IF outcome = "no_relevant"
          THEN /\ queryResp' = response(200, NO_RELEVANT, <<>>, session_id)
               /\ UNCHANGED <<sessions, log, clock, answered>>
          ELSE IF outcome = "not_sufficient"
          THEN /\ queryResp' = response(200, NOT_SUFFICIENT, <<>>, session_id)
               /\ UNCHANGED <<sessions, log, clock, answered>>
          ELSE IF outcome = "error"
          THEN /\ queryResp' = response(500, NULL_TEXT, <<>>, NULL)
               /\ UNCHANGED <<sessions, log, clock, answered>>
          ELSE LET citations == extract_citations(kept)
                   user == Message("user", q, clock, NULL_TEXT)
                   assistant == Message("assistant", ANSWER, clock + 1, "sources")
               IN
               /\ sessions' = add_message(
                                 add_message(sessions, session_id, user, max_conversation_history),
                                 session_id, assistant, max_conversation_history)
               /\ log' = [log EXCEPT ![session_id] = log[session_id] \o <<user, assistant>>]
               /\ clock' = clock + 2
               /\ answered' = [answered EXCEPT ![session_id] = @ + 1]
               /\ queryResp' = response(200, ANSWER, citations, session_id)
    /\ UNCHANGED <<max_conversation_history, recentResp, rerank_top_k, added, callVars,
                   threadVars>>

(* ------------------------------ Spec ----------------------------------- *)
\* uploads, their background jobs and status polling
NextUpload ==
    \/ \E files \in FileLists : UploadStart(files)
    \/ \E ok \in BOOLEAN : UploadSaveFile(ok)
    \/ \E ok \in BOOLEAN : UploadCreateTask(ok)
    \/ \E ok \in BOOLEAN : UploadCreateDocument(ok)
    \/ UploadSchedule
    \/ UploadReturn
    \/ \E t \in TaskIds : JobCall(t)
    \/ \E t \in TaskIds : JobFinish(t)
    \/ \E t \in TaskIds : GetTaskRequest(t)

SpecUpload == Init /\ [][NextUpload]_vars

\* the operations of the task store
NextStore ==
    \/ \E f \in FileNames : CreateTask(f)
    \/ \E t \in TaskIds, c \in 0..MaxChunks, p \in 1..MaxPages : CompleteTask(t, c, p)
    \/ \E t \in TaskIds, e \in Errors : FailTask(t, e)
    \/ \E t \in TaskIds : GetTaskRequest(t)

SpecStore == Init /\ [][NextStore]_vars

\* process_and_index_document called with the arguments it declares
NextProc ==
    \/ \E f \in FileNames : CreateTask(f)
    \/ \E t \in TaskIds, f \in FileNames : DirectCall(t, f)
    \/ \E t \in TaskIds, ok \in BOOLEAN, n \in 1..MaxPages : ProcLoad(t, ok, n)
    \/ \E t \in TaskIds, ok \in BOOLEAN, k \in 0..MaxChunks : ProcChunk(t, ok, k)
    \/ \E t \in TaskIds, ok \in BOOLEAN : ProcInsert(t, ok)
    \/ \E t \in TaskIds : ProcAddNodes(t)
    \/ \E t \in TaskIds : ProcWriteCompleted(t)
    \/ \E t \in TaskIds : ProcWriteFailed(t)
    \/ \E t \in TaskIds : GetTaskRequest(t)

SpecProc == Init /\ [][NextProc]_vars

\* ingestion jobs of supported files that load and chunk without failure, with
\* up to MaxBatch chunks each, running side by side
NextIngest ==
    \/ CreateTask("a.pdf")
    \/ \E t \in TaskIds : DirectCall(t, "a.pdf")
    \/ \E t \in TaskIds : ProcLoad(t, TRUE, 1)
    \/ \E t \in TaskIds, k \in 0..MaxBatch : ProcChunk(t, TRUE, k)
    \/ \E t \in TaskIds, ok \in BOOLEAN : ProcInsert(t, ok)
    \/ \E t \in TaskIds : ProcAddNodes(t)
    \/ \E t \in TaskIds : ProcWriteCompleted(t)
    \/ \E t \in TaskIds : ProcWriteFailed(t)

InitIngest == Init /\ max_conversation_history = 0

SpecIngest == InitIngest /\ [][NextIngest]_vars

\* threads that add nodes to the lexical index and search it side by side
NextLexical ==
    \/ \E c \in Threads : \E nodes \in Batches(Range(added)) \ {<<>>} : AddNodesExtend(c, nodes)
    \/ \E c \in Threads : AddNodesBranch(c)
    \/ \E c \in Threads : Bm25ExtendNodes(c)
    \/ \E c \in Threads : Bm25ExtendTexts(c)
    \/ \E c \in Threads : Bm25Tokenize(c)
    \/ \E c \in Threads : Bm25Assign(c)
    \/ \E c \in Threads, q \in Queries : SearchLoad(c, q)
    \/ \E c \in Threads : SearchScores(c)
    \/ \E c \in Threads : SearchZip(c)

InitLexical == Init /\ max_conversation_history = 0

SpecLexical == InitLexical /\ [][NextLexical]_vars

\* ingestion jobs and query handlers that fetch the retriever side by side
NextSingleton ==
    \/ \E c \in Threads : GetRetrieverTest(c, "query", <<>>)
    \/ \E c \in Threads : \E n \in Nodes : GetRetrieverTest(c, "ingest", <<n>>)
    \/ \E c \in Threads : GetRetrieverAssign(c)
    \/ \E c \in Threads : GetRetrieverReturn(c)
    \/ \E c \in Threads : IngestAddNodes(c)
    \/ \E c \in Threads : QueryRetrieve(c)

InitSingleton == Init /\ max_conversation_history = 0

SpecSingleton == InitSingleton /\ [][NextSingleton]_vars

\* upload requests of one user that run side by side
NextRequests ==
    \/ \E c \in Threads, files \in RequestFiles, midnight \in BOOLEAN :
          UploadRequestStart(c, files, midnight)
    \/ \E c \in Threads, outcome \in {"ok", "failed", "failed_doc"} : UploadRequestFile(c, outcome)
    \/ Midnight

InitRequests == Init /\ max_conversation_history = 0

SpecRequests == InitRequests /\ [][NextRequests]_vars

\* the operations of the conversation memory
NextMemory ==
    \/ \E s \in SessionIds : AddMessage(s, "user", "x", NULL_TEXT)
    \/ \E s \in SessionIds, n \in (0..MaxN) \cup {NULL} : GetRecentHistory(s, n)
    \/ \E s \in SessionIds : ClearSession(s)

SpecMemory == Init /\ [][NextMemory]_vars

\* the session-history endpoint over a store that turns are added to and
\* sessions are cleared from
InitHistory == Init /\ max_conversation_history = 1

NextHistory ==
    \/ \E s \in SessionIds : AddMessage(s, "user", "x", NULL_TEXT)
    \/ \E s \in SessionIds : ClearSession(s)
    \/ \E s \in SessionIds : GetHistoryRequest(s)

SpecHistory == InitHistory /\ [][NextHistory]_vars

\* the operations of the hybrid retriever and of the vector index
NextRetriever ==
    \/ \E nodes \in Batches(vector_index), inserted \in 0..1 :
          inserted <= Len(nodes) /\ IndexAddDocuments(nodes, inserted)
    \/ \E nodes \in Batches(Range(added)) : AddNodes(nodes)
    \/ \E q \in Queries, k \in TopKs : \E vector \in VectorOutcomes(k * 2) : Retrieve(q, k, vector)

\* the retriever reads nothing of the conversation memory: one history bound is enough
InitRetriever == Init /\ max_conversation_history = 0

SpecRetriever == InitRetriever /\ [][NextRetriever]_vars

\* the reranker on its own: a call with its arguments, then its result
InitRerank ==
    /\ InitProgram /\ max_conversation_history = 0
    /\ rerank_top_k = RERANK_TOP_K
    /\ reranked \in RerankCalls(Nodes)
    /\ excerpt = NoExcerpt
    /\ chunked = NoChunks

NextRerank == Rerank

SpecRerank == InitRerank /\ [][NextRerank]_vars

\* what the service of the reranker can do when rerank consults it
Consulted(n, client) ==
    IF client /\ n > rerank_top_k THEN ServiceOutcomes(n, rerank_top_k) ELSE {NoService}

\* the citation excerpt on its own: a call with its arguments, then its result
InitExcerpt ==
    /\ InitProgram /\ max_conversation_history = 0
    /\ rerank_top_k = RERANK_TOP_K
    /\ reranked = NoRerank
    /\ excerpt \in ExcerptCalls
    /\ chunked = NoChunks

NextExcerpt == ExtractKeySentences

SpecExcerpt == InitExcerpt /\ [][NextExcerpt]_vars

\* the chunker on its own: a call with its documents, then its nodes
InitChunker ==
    /\ InitProgram /\ max_conversation_history = 0
    /\ rerank_top_k = RERANK_TOP_K
    /\ reranked = NoRerank
    /\ excerpt = NoExcerpt
    /\ chunked \in ChunkCalls

NextChunker == ChunkDocuments

SpecChunker == InitChunker /\ [][NextChunker]_vars

\* queries of several sessions, before and after the nodes of a document are
\* added to the lexical index
NextQuery ==
    \/ AddNodes(AllNodes)
    \/ \E s \in SessionIds \cup {NULL}, q \in Queries, raises \in {"none", "generate_answer"} :
          Query(s, q, NULL_TEXT, [raises |-> FALSE, hits |-> <<>>], FALSE, NoService, raises)

SpecQuery == Init /\ [][NextQuery]_vars

\* queries of one session, before and after the nodes of a document are added
\* to each index, with RERANK_TOP_K unset or set to 1
InitAnswer ==
    /\ InitProgram /\ max_conversation_history = 1
    /\ rerank_top_k \in {1, RERANK_TOP_K}
    /\ reranked = NoRerank
    /\ excerpt = NoExcerpt
    /\ chunked = NoChunks

NextAnswer ==
    \/ vector_index = {} /\ IndexAddDocuments(AllNodes, Len(AllNodes))
    \/ AddNodes(AllNodes)
    \/ \E q \in Queries, folder_id \in Folders, vector \in VectorOutcomes(1),
          client \in BOOLEAN :
          \E service \in Consulted(Len(RetrievedFor(q, folder_id, vector)), client) :
             Query(1, q, folder_id, vector, client, service, "none")

SpecAnswer == InitAnswer /\ [][NextAnswer]_vars

(* ------------------------------ claims --------------------------------- *)
Terminal(row) == row.status \in {COMPLETED, FAILED}

\* the last k elements of h
LastK(h, k) == SubSeq(h, Len(h) - k + 1, Len(h))

\* C1: once a task's record is completed or failed, no later operation changes
\* its status or any other field of the record.
C1_TerminalRecordImmutable ==
    [][\A t \in DOMAIN store : Terminal(store[t]) => store'[t] = store[t]]_vars

\* C2: when process_and_index_document loads, chunks and indexes a document
\* without any step raising, the task of that id is completed in the task
\* store, with the chunk count, the page count and a completion timestamp.
C2_SuccessCompletesTask ==
    \A t \in TaskIds :
        (procPc[t] = "done" /\ procLocals[t].error = NULL_TEXT)
            => LET task == get_task(store, t) IN
               /\ task # None
               /\ task.status = COMPLETED
               /\ task.chunks = procLocals[t].nodes
               /\ task.pages = procLocals[t].documents
               /\ task.completed_at # NULL

\* C3: when a step of the ingestion pipeline raises, the task of that id is
\* failed in the task store, with the error message and a failure timestamp,
\* and the call ends without the exception.
C3_FailureFailsTask ==
    \A t \in TaskIds :
        (procPc[t] = "done" /\ procLocals[t].error # NULL_TEXT)
            => LET task == get_task(store, t) IN
               /\ task # None
               /\ task.status = FAILED
               /\ task.error = procLocals[t].error
               /\ task.failed_at # NULL

\* C4: after the background job of a task has ended, get_task does not report
\* processing for that task.
C4_EndedJobNotProcessing ==
    \A t \in TaskIds :
        jobPc[t] = "done"
            => LET task == get_task(store, t) IN
               task # None /\ task.status # PROCESSING

\* C5: GET /tasks/{task_id} answers not-found exactly for the ids create_task
\* never made, and a record for every id it made.
C5_NotFoundIffNeverCreated ==
    [][\A t \in TaskIds :
          GetTaskRequest(t) =>
              IF t \in created
              THEN /\ taskResp'.code = 200
                   /\ taskResp'.body # None
                   /\ taskResp'.body.status \in {PROCESSING, COMPLETED, FAILED}
                   /\ taskResp'.body.filename \in FileNames
              ELSE taskResp'.code = 404 /\ taskResp'.body = None]_vars

C5_Witness ==
    /\ taskResp.code = 404
    /\ taskResp.task_id \notin created
    /\ \E u \in created : store[u].status = COMPLETED

Accepted(entries) == {entries[i] : i \in {j \in DOMAIN entries : entries[j].status = PROCESSING}}

HasRecord(t, filename) ==
    /\ t \in DOMAIN store
    /\ store[t].filename = filename
    /\ store[t].created_at # NULL

\* C6: every file upload accepts has, before its job is scheduled and before
\* the response is returned, a record in the task store with its fresh task
\* id, the filename and a creation timestamp, in status processing; a job is
\* scheduled only for such a task.
C6_AcceptedHasProcessingTask ==
    /\ \A e \in Accepted(upDocs) :
          /\ HasRecord(e.task_id, e.filename)
          /\ store[e.task_id].status = PROCESSING
          /\ jobPc[e.task_id] = "scheduled"
    /\ \A e \in Accepted(upResp.documents) :
          HasRecord(e.task_id, e.filename) /\ jobPc[e.task_id] # "none"
    /\ \A e1, e2 \in Accepted(upDocs) \cup Accepted(upResp.documents) :
          e1.task_id = e2.task_id => e1 = e2
    /\ upPc = "schedule" => HasRecord(upTask, Head(upFiles)) /\ store[upTask].status = PROCESSING
    /\ \A t \in TaskIds :
          /\ jobPc[t] # "none" => t \in DOMAIN documents /\ HasRecord(t, documents[t].filename)
          /\ jobPc[t] \in {"scheduled", "ready"} => store[t].status = PROCESSING

C6_Witness ==
    /\ upResp.code = 200
    /\ \E i \in DOMAIN upResp.documents :
          /\ upResp.documents[i].status = PROCESSING
          /\ jobPc[upResp.documents[i].task_id] = "ready"
          /\ upResp.documents[i].task_id \in DOMAIN store

\* C7: after N add_message calls on a session its transcript is exactly the
\* most recent min(N, 2B) messages, in their order, for every bound B.
C7_TranscriptIsRecentWindow ==
    \A s \in SessionIds :
        get_history(sessions, s) =
            LastK(log[s], Min(Len(log[s]), 2 * max_conversation_history))

\* C8: get_recent_history(session, n) returns exactly the last n turns of the
\* transcript, the whole transcript when it has fewer, for every n >= 0.
C8_RecentIsLastN ==
    [][\A s \in SessionIds, n \in 0..MaxN :
          GetRecentHistory(s, n) =>
              LET history == get_history(sessions, s) IN
              recentResp'.result = LastK(history, Min(n, Len(history)))]_vars

SessionState(sess, s) == <<s \in DOMAIN sess, get_history(sess, s)>>

\* C9: add_message and clear_session on one session leave the transcript of
\* every other session unchanged.
C9_SessionsDoNotInterfere ==
    [][\A a \in SessionIds :
          (AddMessage(a, "user", "x", NULL_TEXT) \/ ClearSession(a))
              => \A b \in SessionIds \ {a} :
                    SessionState(sessions', b) = SessionState(sessions, b)]_vars

\* add_message has trimmed session a while session b holds a transcript
C9_Witness ==
    \E a, b \in SessionIds :
        /\ a # b
        /\ a \in DOMAIN sessions /\ Len(log[a]) > Len(sessions[a])
        /\ b \in DOMAIN sessions /\ Len(sessions[b]) >= 1

FourTurns(s) ==
    LET h == get_history(sessions, s) IN
    /\ Len(h) = 4
    /\ <<h[1].role, h[2].role, h[3].role, h[4].role>>
          = <<"user", "assistant", "user", "assistant">>
    /\ \A i \in 1..3 : h[i].timestamp < h[i + 1].timestamp
    /\ h = log[s]

\* C10 as stated: two queries issued with the same session id leave a
\* transcript of 4 turns (user, assistant, user, assistant) in order.
C10_TwoQueriesFourTurns ==
    \A s \in SessionIds : issued[s] = 2 => FourTurns(s)

\* C10: two queries issued with the same session id that both return a
\* generated answer leave a transcript of 4 turns (user, assistant, user,
\* assistant) in chronological order, when the history bound is at least 2.
C10_TwoAnsweredQueriesFourTurns ==
    \A s \in SessionIds :
        (issued[s] = 2 /\ answered[s] = 2 /\ max_conversation_history >= 2)
            => FourTurns(s)

C10_Witness ==
    \E s \in SessionIds :
        /\ issued[s] = 2 /\ answered[s] = 2 /\ max_conversation_history >= 2
        /\ Len(get_history(sessions, s)) = 4

(* the query handler over the indices *)
\* C11: a query issued while both indices are empty returns a successful
\* response whose answer states that no relevant information was found and
\* whose citation list is empty, without calling the completion service.
C11_EmptyIndicesNoRelevant ==
    [][(vector_index = {} /\ bm25_retriever = None /\ issued' # issued)
          => /\ queryResp'.code = 200
             /\ queryResp'.answer = NO_RELEVANT
             /\ queryResp'.sources = <<>>
             /\ ~queryResp'.generated]_vars

C11_Witness ==
    /\ vector_index = {} /\ bm25_retriever = None /\ added = <<>>
    /\ issued[1] >= 1
    /\ queryResp.code = 200 /\ queryResp.answer = NO_RELEVANT

\* C12: every candidate scoring below the 0.05 cutoff is discarded before
\* answering: the citations of an answered query are those of the candidates
\* scoring at least 0.05, each with relevance score >= 0.05, and when the
\* filter empties the candidate set the response is the 'no sufficiently
\* relevant information' answer with an empty citation list and no call of
\* the completion service.
C12_BelowCutoffDiscarded ==
    (queryResp.code = 200 /\ queryResp.reranked_nodes # <<>>) =>
        LET candidates == queryResp.reranked_nodes
            above == SelectSeq(candidates, LAMBDA c : c.score * 100 >= 5 * 100 * NormScale)
        IN /\ above = <<>> => /\ queryResp.answer = NOT_SUFFICIENT
                              /\ queryResp.sources = <<>>
                              /\ ~queryResp.generated
           /\ above # <<>> => /\ queryResp.answer = ANSWER
                              /\ Len(queryResp.sources) = Len(above)
                              /\ \A i \in DOMAIN above :
                                    /\ queryResp.sources[i].node_id = above[i].node.node_id
                                    /\ queryResp.sources[i].relevance_score >= 500

\* the reranker scored the only candidate it returned 0.04
C12_Witness ==
    /\ queryResp.code = 200 /\ queryResp.answer = NOT_SUFFICIENT
    /\ \E i \in DOMAIN queryResp.reranked_nodes :
          queryResp.reranked_nodes[i].score = 4 * NormScale

(* the hybrid retriever *)
\* the lexical hits a retrieve call with these arguments works on
LexicalHits(query, k) ==
    IF bm25_retriever = None THEN <<>> ELSE search(bm25_retriever, query, k * 2)

HitsOf(hits, node) == {i \in DOMAIN hits : hits[i].node.node_id = node.node_id}

\* the score of a node's own text for the query
OwnScore(node, query) == TermFrequency(Tokenize(node.text), Tokenize(query))

RECURSIVE SumOfContributions(_, _, _)
SumOfContributions(hits, indices, max_score) ==
    IF indices = {} THEN 0
    ELSE LET i == CHOOSE j \in indices : TRUE
         IN Normalized(hits[i].score, max_score)
            + SumOfContributions(hits, indices \ {i}, max_score)

Retrieved == retrieved.k # NULL

\* C13: for every query, every k >= 0 and every index state reachable by
\* add_nodes and retrieve calls, retrieve(query, k) returns at most k
\* candidates and no chunk id appears more than once in the result.
C13_AtMostKNoDuplicates ==
    Retrieved =>
        /\ Len(retrieved.nodes) <= retrieved.k
        /\ \A i, j \in DOMAIN retrieved.nodes :
              i # j => retrieved.nodes[i].node.node_id # retrieved.nodes[j].node.node_id

\* a retrieve that cut the fused candidates to k, with a chunk that was both
\* a lexical and a vector hit
C13_Witness ==
    /\ Retrieved /\ ~retrieved.vector.raises
    /\ retrieved.k >= 1 /\ Len(retrieved.nodes) = retrieved.k
    /\ \E i \in DOMAIN retrieved.vector.hits :
          HitsOf(LexicalHits(retrieved.query, retrieved.k), retrieved.vector.hits[i].node) # {}
    /\ \E i \in DOMAIN retrieved.vector.hits :
          HitsOf(LexicalHits(retrieved.query, retrieved.k), retrieved.vector.hits[i].node) = {}

\* C14: the fused score of a returned chunk equals (1 - vector_weight) * (its
\* lexical score / max lexical score) plus vector_weight * (its vector score /
\* max vector score), where a source in which the chunk does not appear
\* contributes 0 and a source whose maximum score is <= 0 contributes 0.
C14_FusedScoreFormula ==
    Retrieved =>
        LET lexical == LexicalHits(retrieved.query, retrieved.k)
            vector == Prefix(retrieved.vector.hits, retrieved.k * 2)
            LexicalPart(node) ==
                IF HitsOf(lexical, node) = {} THEN 0
                ELSE Normalized(OwnScore(node, retrieved.query), MaxScoreOf(lexical))
            VectorPart(node) ==
                IF \E i \in DOMAIN vector : vector[i].node.node_id = node.node_id
                THEN LET i == CHOOSE j \in DOMAIN vector : vector[j].node.node_id = node.node_id
                     IN Normalized(vector[i].score, MaxScoreOf(retrieved.vector.hits))
                ELSE 0
        IN \A i \in DOMAIN retrieved.nodes :
              retrieved.nodes[i].score =
                  (100 - hybrid_search_weight) * LexicalPart(retrieved.nodes[i].node)
                  + hybrid_search_weight * VectorPart(retrieved.nodes[i].node)

\* C15: if the vector index query raises, retrieve does not raise: it returns
\* the ranking built from the lexical results alone, every chunk scored with
\* the weighted lexical contributions only, and the empty list when the
\* lexical index has not been built.
C15_VectorFailureGivesLexicalRanking ==
    (Retrieved /\ retrieved.vector.raises) =>
        LET lexical == LexicalHits(retrieved.query, retrieved.k)
            ids == {lexical[i].node.node_id : i \in DOMAIN lexical}
        IN /\ ~retrieved.raises
           /\ bm25_retriever = None => retrieved.nodes = <<>>
           /\ Len(retrieved.nodes) = Min(retrieved.k, Cardinality(ids))
           /\ \A i \in DOMAIN retrieved.nodes :
                 /\ retrieved.nodes[i].node.node_id \in ids
                 /\ retrieved.nodes[i].score =
                       (100 - hybrid_search_weight)
                       * SumOfContributions(lexical, HitsOf(lexical, retrieved.nodes[i].node),
                                            MaxScoreOf(lexical))
           /\ \A i, j \in DOMAIN retrieved.nodes :
                 i < j => retrieved.nodes[i].score >= retrieved.nodes[j].score

\* the vector query raised while the lexical index held two chunks of different score
C15_Witness ==
    /\ Retrieved /\ retrieved.vector.raises /\ vector_index # {}
    /\ Len(retrieved.nodes) = 2
    /\ retrieved.nodes[1].score > retrieved.nodes[2].score

\* C16: after any sequence of add_nodes and retrieve calls, every chunk ever
\* passed to add_nodes is still a candidate of the lexical search, scored
\* against its own text.
C16_EveryAddedChunkIsCandidate ==
    \A n \in Range(added) : \A q \in Queries :
        /\ bm25_retriever # None
        /\ LET candidates == search(bm25_retriever, q, Len(bm25_retriever.nodes))
           IN \E i \in DOMAIN candidates :
                 candidates[i].node = n /\ candidates[i].score = OwnScore(n, q)

(* the reranker *)
\* C17: when the reranking service call raises, or no reranking client is
\* configured, rerank(query, candidates, k) with more than k candidates returns
\* exactly the first k input candidates in their input order with their input
\* scores, and raises nothing.
C17_RerankFallsBackToFirstK ==
    (/\ reranked.returned
     /\ Len(reranked.nodes) > reranked.top_k
     /\ (~reranked.client \/ reranked.service.raises))
        => /\ ~reranked.raises
           /\ Len(reranked.result) = reranked.top_k
           /\ \A i \in 1..reranked.top_k : reranked.result[i] = reranked.nodes[i]

\* the service raised for two candidates of different score and k = 1
C17_Witness ==
    /\ reranked.returned
    /\ reranked.top_k = 1 /\ reranked.client /\ reranked.service.raises
    /\ Len(reranked.nodes) = 2 /\ reranked.nodes[1].score > reranked.nodes[2].score
    /\ reranked.result = <<reranked.nodes[1]>>

(* the citation excerpts *)
WithoutEllipsis(text) ==
    IF text # <<>> /\ text[Len(text)] = Ellipsis THEN SubSeq(text, 1, Len(text) - 1) ELSE text

\* C18: for every chunk text longer than 200 characters and every query (or no
\* query), the excerpt returned by _extract_key_sentences, with its trailing
\* ellipsis removed, has at most 200 characters; a text of at most 200
\* characters is returned verbatim.
C18_ExcerptAtMost200 ==
    excerpt.returned =>
        IF TextLen(excerpt.text) > 200
        THEN TextLen(WithoutEllipsis(excerpt.result)) <= 200
        ELSE excerpt.result = excerpt.text

\* two sentences of 99 characters joined to an excerpt of exactly 200
C18_Witness ==
    /\ excerpt.returned /\ excerpt.query # NULL_TEXT
    /\ TextLen(excerpt.text) > 200
    /\ Len(WithoutEllipsis(excerpt.result)) = 3
    /\ TextLen(WithoutEllipsis(excerpt.result)) = 200

(* the chunker *)
\* the characters of the chunks emitted before the i-th with its filename
RECURSIVE EmittedBefore(_, _, _)
EmittedBefore(nodes, i, j) ==
    IF j >= i THEN 0
    ELSE (IF nodes[j].metadata.file_name = nodes[i].metadata.file_name
          THEN nodes[j].length ELSE 0) + EmittedBefore(nodes, i, j + 1)

\* C19: within one chunk_documents call, each chunk's start_char_idx equals the
\* sum of the character lengths of the chunks emitted earlier with the same
\* filename (0 for the first), also across several source documents sharing
\* that filename and independently of chunks of other filenames; hence
\* per-filename offsets are non-negative and non-decreasing in emission order.
C19_StartIsSumOfEarlierChunks ==
    chunked.returned =>
        \A i \in 1..Len(chunked.nodes) :
            /\ chunked.nodes[i].metadata.start_char_idx = EmittedBefore(chunked.nodes, i, 1)
            /\ chunked.nodes[i].metadata.start_char_idx >= 0
            /\ \A j \in 1..(i - 1) :
                  chunked.nodes[j].metadata.file_name = chunked.nodes[i].metadata.file_name
                      => chunked.nodes[j].metadata.start_char_idx
                             <= chunked.nodes[i].metadata.start_char_idx

\* two documents of one filename with a document of another between them: the
\* last chunk starts behind the chunks of the first document only
C19_Witness ==
    /\ chunked.returned
    /\ Len(chunked.documents) = 3 /\ Len(chunked.nodes) = 4
    /\ chunked.nodes[1].metadata.file_name = "a.pdf" /\ chunked.nodes[1].length = 3
    /\ chunked.nodes[2].metadata.file_name = "a.pdf" /\ chunked.nodes[2].length = 3
    /\ chunked.nodes[3].metadata.file_name = "unknown" /\ chunked.nodes[3].length = 3
    /\ chunked.nodes[4].metadata.file_name = "a.pdf"
    /\ chunked.nodes[4].metadata.start_char_idx = 6

(* the session-history endpoint *)
\* C20: an unknown session id is reported explicitly as not found, distinctly
\* from an empty result: the session-history lookup for a session id that
\* never had a turn gives a response distinguishable from that of an existing
\* session with an empty transcript.
C20_UnknownSessionDistinctFromEmpty ==
    (histResp.session_id # NULL /\ ~histResp.known)
        => [code |-> histResp.code, body |-> histResp.body]
               # HistoryResponse(histResp.session_id, <<>>)

(* the background job and the indices *)
\* the chunks of the document of task t
ChunksOf(t) == {Node(<<t, i>>, ChunkText(i)) : i \in 1..Max(procLocals[t].nodes, 0)}
OfTask(nodes, t) == {n \in nodes : n.node_id[1] = t}
LexicalNodes == IF bm25_retriever = None THEN {} ELSE Range(bm25_retriever.nodes)
StatusCompleted(t) ==
    \/ t \in DOMAIN task_statuses /\ task_statuses[t].status = COMPLETED
    \/ t \in DOMAIN store /\ store[t].status = COMPLETED
Running(t) == procPc[t] \in {"load", "chunk", "insert", "add_nodes", "status"}

\* C21: the status transition is the last action of the background job:
\* whenever a task's status is completed, all chunks of its document have
\* already been added to both the vector index and the lexical index, and the
\* job performs no index mutation after writing the status; a job that stops
\* before that write leaves the task in processing.
C21_StatusWriteIsLast ==
    [][\A t \in TaskIds :
          /\ StatusCompleted(t)' =>
                ChunksOf(t)' \subseteq vector_index' /\ ChunksOf(t)' \subseteq LexicalNodes'
          /\ procPc[t] = "done" =>
                /\ OfTask(vector_index', t) = OfTask(vector_index, t)
                /\ OfTask(LexicalNodes', t) = OfTask(LexicalNodes, t)
          /\ Running(t)' =>
                /\ ~StatusCompleted(t)'
                /\ t \in DOMAIN store' /\ store'[t].status = PROCESSING
                /\ t \notin DOMAIN task_statuses']_vars

\* a completed task with a chunk in both indices, while another job is running
C21_Witness ==
    \E t, u \in TaskIds :
        /\ StatusCompleted(t) /\ procPc[t] = "done"
        /\ ChunksOf(t) # {}
        /\ ChunksOf(t) \subseteq vector_index /\ ChunksOf(t) \subseteq LexicalNodes
        /\ procPc[u] = "add_nodes"

(* the order of the fused candidates *)
\* the hits of a retrieve call in the order it meets them: the lexical hits,
\* then the vector hits
Discovered ==
    LexicalHits(retrieved.query, retrieved.k)
        \o (IF retrieved.vector.raises THEN <<>>
            ELSE Prefix(retrieved.vector.hits, retrieved.k * 2))
CandidateIds == {Discovered[i].node.node_id : i \in DOMAIN Discovered}
\* the position at which a candidate is met first
FirstMet(id) ==
    CHOOSE i \in DOMAIN Discovered :
        /\ Discovered[i].node.node_id = id
        /\ \A j \in 1..(i - 1) : Discovered[j].node.node_id # id
\* the score accumulated for a candidate over both sources
AccumulatedScore(id) ==
    LET lexical == LexicalHits(retrieved.query, retrieved.k)
        vector == IF retrieved.vector.raises THEN <<>>
                  ELSE Prefix(retrieved.vector.hits, retrieved.k * 2)
        in_lexical == {i \in DOMAIN lexical : lexical[i].node.node_id = id}
        in_vector == {i \in DOMAIN vector : vector[i].node.node_id = id}
    IN (100 - hybrid_search_weight)
          * SumOfContributions(lexical, in_lexical, MaxScoreOf(lexical))
       + hybrid_search_weight
          * SumOfContributions(vector, in_vector, MaxScoreOf(retrieved.vector.hits))
\* the candidates that come before a candidate in the ranking
Before(id) ==
    {other \in CandidateIds :
        \/ AccumulatedScore(other) > AccumulatedScore(id)
        \/ AccumulatedScore(other) = AccumulatedScore(id) /\ FirstMet(other) < FirstMet(id)}

\* C22: retrieve returns the fused candidates sorted by accumulated score in
\* descending order, with equal scores kept in discovery order (lexical hits in
\* lexical rank order first, then vector-only hits in vector rank order),
\* truncated to the first k.
C22_SortedStableTruncated ==
    Retrieved =>
        /\ Len(retrieved.nodes) = Min(retrieved.k, Cardinality(CandidateIds))
        /\ \A i \in DOMAIN retrieved.nodes :
              /\ retrieved.nodes[i].node.node_id \in CandidateIds
              /\ retrieved.nodes[i].score = AccumulatedScore(retrieved.nodes[i].node.node_id)
              /\ Cardinality(Before(retrieved.nodes[i].node.node_id)) = i - 1

\* a lexical hit and a vector-only hit of equal score returned in that order,
\* with a third candidate cut off
C22_Witness ==
    /\ Retrieved /\ ~retrieved.vector.raises
    /\ retrieved.k = 2 /\ Len(retrieved.nodes) = 2
    /\ Cardinality(CandidateIds) = 3
    /\ retrieved.nodes[1].score = retrieved.nodes[2].score
    /\ retrieved.nodes[1].score > 0
    /\ HitsOf(LexicalHits(retrieved.query, retrieved.k), retrieved.nodes[1].node) # {}
    /\ HitsOf(LexicalHits(retrieved.query, retrieved.k), retrieved.nodes[2].node) = {}

(* the alignment of the lexical index *)
\* C24: after any sequence of HybridRetriever.add_nodes and retrieve calls,
\* the lexical index's chunk list and its text corpus have the same length and
\* position i of the chunk list is the chunk whose text is at position i of
\* the corpus, with each added chunk present exactly once; so search pairs
\* every chunk with the score of its own text.
C24_ChunkListAlignedWithCorpus ==
    bm25_retriever # None =>
        /\ Len(bm25_retriever.nodes) = Len(bm25_retriever.node_texts)
        /\ Len(bm25_retriever.bm25) = Len(bm25_retriever.node_texts)
        /\ \A i \in DOMAIN bm25_retriever.nodes :
              i \in DOMAIN bm25_retriever.node_texts
                  => bm25_retriever.nodes[i].text = bm25_retriever.node_texts[i]
        /\ \A n \in Range(added) :
              Cardinality({i \in DOMAIN bm25_retriever.nodes : bm25_retriever.nodes[i] = n}) = 1

(* ingestion and the two indices *)
\* C26: ingestion is all-or-nothing with respect to the indices: when a task
\* ends failed, no chunk of its document is present in the vector index or the
\* lexical index, and after any job ends both indices hold the same set of
\* that document's chunks.
C26_IngestionAllOrNothing ==
    \A t \in TaskIds :
        procPc[t] = "done" =>
            /\ OfTask(vector_index, t) = OfTask(LexicalNodes, t)
            /\ (t \in DOMAIN task_statuses /\ task_statuses[t].status = FAILED)
                  => OfTask(vector_index, t) = {} /\ OfTask(LexicalNodes, t) = {}

(* the Document row and the task *)
\* C27: once the background job of an upload has ended, the Document record's
\* status and the status of its task as returned by get_task are the same
\* value: both completed when indexing succeeded, both failed otherwise; a
\* Document is never failed while its task is processing or completed.
C27_DocumentStatusIsTaskStatus ==
    \A t \in TaskIds :
        /\ jobPc[t] = "done" =>
              /\ get_task(store, t) # None
              /\ documents[t].status = get_task(store, t).status
              /\ documents[t].status \in {COMPLETED, FAILED}
        /\ (t \in DOMAIN documents /\ documents[t].status = FAILED) =>
              /\ get_task(store, t) # None
              /\ get_task(store, t).status = FAILED

(* the query handler and the conversation memory *)
IsSuffix(t, h) == Len(t) <= Len(h) /\ t = SubSeq(h, Len(h) - Len(t) + 1, Len(h))

\* C28: a query appends to conversation memory only when it returns a
\* generated answer, and then appends exactly one user turn followed by one
\* assistant turn to its own session; a query that returns a 'no relevant
\* information' answer or ends in an error leaves the transcripts of all
\* sessions unchanged.
C28_MemoryWrittenOnlyOnAnswer ==
    [][issued' # issued =>
          LET s == CHOOSE x \in SessionIds : issued'[x] # issued[x]
              before == get_history(sessions, s)
              after == get_history(sessions', s)
          IN IF queryResp'.code = 200 /\ queryResp'.answer = ANSWER
             THEN /\ queryResp'.session_id = s
                  /\ Len(after) >= 2
                  /\ after[Len(after) - 1].role = "user"
                  /\ after[Len(after)].role = "assistant"
                  /\ after[Len(after)].content = queryResp'.answer
                  /\ after[Len(after) - 1] \notin Range(before)
                  /\ after[Len(after)] \notin Range(before)
                  /\ IsSuffix(SubSeq(after, 1, Len(after) - 2), before)
                  /\ \A x \in SessionIds \ {s} :
                        get_history(sessions', x) = get_history(sessions, x)
                        /\ (x \in DOMAIN sessions' <=> x \in DOMAIN sessions)
             ELSE sessions' = sessions]_vars

\* an answered query of one session after an answered query of another and a
\* query that ended in an error
C28_Witness ==
    \E s, x \in SessionIds :
        /\ s # x
        /\ queryResp.code = 200 /\ queryResp.answer = ANSWER /\ queryResp.session_id = s
        /\ Len(get_history(sessions, x)) = 2
        /\ issued[x] = 2 /\ answered[x] = 1

(* the lexical index under concurrent threads *)
Searched == searched.query # NULL_TEXT

\* C23: a lexical search that interleaves with a running add_nodes never
\* raises and returns either the pre-addition ranking or the post-addition
\* ranking: it may be stale, but it never pairs a chunk with a score computed
\* for another chunk's text.
C23_SearchSeesOldOrNewRanking ==
    Searched =>
        LET result == searched.result
            found == {result[i].node : i \in DOMAIN result}
        IN /\ \A i \in DOMAIN result :
                 /\ result[i].node \in Range(added)
                 /\ result[i].score = OwnScore(result[i].node, searched.query)
           /\ \A i, j \in DOMAIN result :
                 i < j => /\ result[i].node # result[j].node
                          /\ result[i].score >= result[j].score
           /\ searched.before \subseteq found

\* C25: under any interleaving of two or more concurrent add_nodes calls from
\* different ingestion jobs, the lexical index ends with every added chunk
\* present and aligned with its own text (the chunk list and the text corpus
\* hold the batches in the same order), and the final ranking structure covers
\* all added chunks.
C25_ConcurrentAddsStayAligned ==
    (overlapped /\ \A c \in Threads : thrPc[c] = "idle") =>
        /\ bm25_retriever # None
        /\ Len(bm25_retriever.nodes) = Len(bm25_retriever.node_texts)
        /\ Len(bm25_retriever.bm25) = Len(bm25_retriever.node_texts)
        /\ \A i \in DOMAIN bm25_retriever.nodes :
              i \in DOMAIN bm25_retriever.node_texts
                  => bm25_retriever.nodes[i].text = bm25_retriever.node_texts[i]
        /\ \A n \in Range(added) :
              \E i \in DOMAIN bm25_retriever.nodes :
                 /\ bm25_retriever.nodes[i] = n
                 /\ i \in DOMAIN bm25_retriever.bm25
                 /\ bm25_retriever.bm25[i] = Tokenize(n.text)

(* the retriever singleton *)
\* C29: all callers of get_hybrid_retriever observe one and the same
\* HybridRetriever instance, also when ingestion threads and query handlers
\* call it concurrently before it is initialised; no chunk added through one
\* caller's instance is missing from the instance another caller queries.
C29_OneRetrieverForAllCallers ==
    /\ \A i, j \in DOMAIN instances :
          (instances[i].returned /\ instances[j].returned) => i = j
    /\ \A c \in Threads :
          (thrPc[c] = "got" /\ thrLocals[c].op = "search") =>
              \A i \in DOMAIN instances :
                  instances[i].nodes \subseteq instances[thrLocals[c].instance].nodes

(* the daily limit under concurrent uploads *)
RequestStarts ==
    \/ \E c \in Threads : thrPc[c] = "idle" /\ thrPc'[c] # "idle"
    \/ thrPc' = thrPc /\ thrLocals' = thrLocals /\ upResp' # upResp

====
